---- MODULE Spec2Model ----
(***************************************************************************)
(* Verification model of the meld context engine:                          *)
(*   - the frame generation queue        (src/src/frame/queue.rs)          *)
(*   - the incremental regenerator       (src/src/regeneration.rs)         *)
(*   - the head index                    (src/src/heads.rs)                *)
(*   - the per-node lock manager         (src/src/concurrency.rs)          *)
(* Each subsystem has its own specification over the shared state; the     *)
(* variables of the other subsystems stay at their initial values.         *)
(***************************************************************************)
EXTENDS Integers, Sequences, FiniteSets, TLC

(***************************************************************************)
(* Bounds of the model and configuration values of GenerationConfig.       *)
(***************************************************************************)
\* GenerationConfig.max_queue_size (configurable; small here)
MaxQueueSize == 2
\* GenerationConfig.max_retry_attempts (configurable; 2 as in the retry scenario)
MaxRetryAttempts == 2
\* GenerationConfig.workers_per_agent
WorkersPerAgent == 2
\* GenerationConfig.max_concurrent_per_agent
MaxConcurrentPerAgent == 1
\* number of requests ever accepted by enqueue / enqueue_batch
MaxReq == 3
\* largest batch handed to enqueue_batch
MaxBatch == 2
\* last value of the monotonic clock (Instant::now) in the concurrent queue
\* specification: with 0 every request carries the same created_at, so a pop
\* may take any request of the highest priority
MaxTime == 0
\* number of requests pushed, and last clock value, in the heap specification
HeapMaxReq == 4
HeapMaxTime == 3
\* number of distinct agent ids used by callers
NumAgents == 1
\* most FrameIDs the basis index lists before writers stop
MaxIndexEntries == 4
\* regenerate_node: the store call that fails is one of the first MaxFail
MaxFail == 2
\* threads taking node locks
NumThreads == 4
MaxPlanNodes == 5
MaxCommands == 2

Agents == 1..NumAgents
Workers == 1..WorkersPerAgent

\* enum Priority { Low = 0, Normal = 1, High = 2, Urgent = 3 }
Low == 0
Normal == 1
High == 2
Urgent == 3
Priority == {Low, Normal, High, Urgent}

\* priorities the callers of the concurrent queue specification pass
QueuePriorities == {Normal, Urgent}

\* ApiError variants a processing attempt can end with
ErrorKinds == {"ConfigError", "ProviderNotConfigured", "ProviderRateLimit",
               "ProviderRequestFailed", "ProviderError", "NodeNotFound"}

NoReq == [id |-> 0]

VARIABLES
    \* ---- FrameGenerationQueue ----
    queue,          \* BinaryHeap<GenerationRequest>, as the set of requests it holds
    stats,          \* QueueStats
    running,        \* running flag
    notifyPermit,   \* the stored permit of tokio::sync::Notify
    rate_limiters,  \* HashMap agent_id -> free permits of the agent's semaphore
    pc,             \* position of each worker task in worker_loop
    wreq,           \* the request a worker holds (local `request`)
    clock,          \* last value returned by Instant::now()
    nextId,         \* number of requests accepted so far
    wres,           \* the result of process_request a worker holds (local `result`)
    ret,            \* last enqueue / enqueue_batch call: <<operation, "Ok" or ApiError variant>>
    attempts,       \* per live request: process_request calls so far (history)
    popped,         \* heap specification: <<request, requests left>> per pop, in order
    \* ---- context store ----
    frames,         \* FrameStorage: the frames stored
    heads,          \* HeadIndex.heads: (NodeID, frame_type) -> FrameID
    basis_index,    \* BasisIndex: index (hash -> Vec<FrameID>) and reverse (FrameID -> hash)
    report,         \* outcome of the last regenerate_node call
    \* ---- NodeLockManager ----
    locks,          \* NodeLockManager.locks: NodeID -> lock
    nextLock,       \* the next Arc<RwLock<()>> to be allocated
    lockState,      \* per lock: thread holding the write guard, threads holding read guards
    tpc,            \* position of each thread in its closure
    tnode,          \* the NodeID a thread locks
    tmode,          \* whether it takes the read or the write guard
    thandle,        \* the lock get_lock returned to it (0: none yet)
    tpath,          \* whether its lookup in get_node_lock hit or missed
    tcurrent,       \* its local `current`
    counter,        \* per node, the shared data its write guard protects
    \* ---- callers of stop and wait_for_completion ----
    stopPc,         \* position of the caller of stop: "idle", "join" or "returned"
    waitRet,        \* what the last wait_for_completion call returned
    \* ---- context generate: planner, executor ----
    planTree,       \* the node records: children lists and the directories
    planHeads,      \* the nodes that have a head for the frame type
    planArgs,       \* target, recursive and force of the last command
    plan,           \* the GenerationPlan of the last command
    execPc,         \* "idle", "executing" or "returned"
    execLevel,      \* number of levels submitted so far
    inflight,       \* submitted items that have not resolved
    execResult,     \* total_generated and total_failed of the run
    cmdRet,         \* what the command returned
    commands,       \* number of commands run
    \* ---- enqueue_and_wait ----
    waiters,        \* per request id, what its suspended caller has got so far
    \* ---- Frame::new ----
    newFrame,       \* the Frame the last Frame::new call returned, with its timestamp
    newFrameArgs,   \* the agent_id and metadata that call was given
    \* ---- StorageConfig::resolve_paths ----
    resolved,       \* the (workspace root, config, store path, frames path) of the resolve_paths calls made
    \* ---- AgentRegistry, context generate arguments ----
    agents,         \* AgentRegistry.agents: agent_id -> AgentIdentity
    lastCmd,        \* the node, agent and provider arguments of the last context generate
    \* ---- regenerate_node under the node locks ----
    nodeWriter,     \* per node, the thread holding its write guard (0: none)
    nodeReaders,    \* per node, the threads holding a read guard
    indexOwner,     \* the thread holding the exclusive borrows of HeadIndex and BasisIndex (0: none)
    wpc,            \* position of each thread in regenerate_node or in its read
    wtarget,        \* the node a thread was called with
    wrec,           \* the recursive flag of its call
    wtodo,          \* the nodes its call has still to visit, the current one first
    wframe,         \* the FrameID of the frame it is writing
    storedFrames,   \* FrameStorage, as the FrameIDs stored
    indexedFrames,  \* BasisIndex, as the FrameIDs indexed
    nodeHead,       \* HeadIndex: node -> FrameID (0: no head)
    nextFrame,      \* the next FrameID
    \* ---- AgentRateLimiter ----
    agentLimiters,  \* rate_limiters: agent_id -> free permits of the semaphore and last_request
    lpc,            \* position of each worker between its pop and the end of process_request
    lagent,         \* the agent_id of the request a worker holds
    lwake,          \* the instant its sleep in acquire ends
    lclock,         \* the value of Instant::now()
    starts,         \* per agent, the instants at which acquire returned (history)
    runFlag, \* FrameGenerationQueue.running as start and stop see it
    taskPc, \* every spawned worker task: unspawned, top, busy or done
    workerHandles, \* the JoinHandles in FrameGenerationQueue.workers
    callPc, \* where each caller of start or stop is
    taken, \* the handles a stop call took and awaits
    spawned, \* worker tasks spawned so far
    batcherPending, \* EventBatcher.pending_events: the last event per path
    lastEventTime, \* EventBatcher.last_event_time, -1 for a path without entry
    daemonPending, \* the pending_events vector of WatchDaemon::start
    processedEvents, \* every event handed to process_events so far
    watchClock, \* Instant::now() of the watch daemon
    lastBatchTime, \* last_batch_time of WatchDaemon::start
    received, \* events received from the watcher channel so far
    nodeRecords, \* the node store: absent, active or tombstoned per NodeID
    statusHeads, \* the keys (NodeID, frame_type) of the head index
    lastStatus \* the WorkspaceStatus last returned by build_workspace_status

qvars == <<queue, stats, running, notifyPermit, rate_limiters, pc, wreq, wres, clock,
           nextId, ret, attempts>>

svars == <<frames, heads, basis_index, report>>

lvars == <<locks, nextLock, lockState, tpc, tnode, tmode, thandle, tpath, tcurrent, counter>>

dvars == <<stopPc, waitRet>>
pvars == <<planTree, planHeads, planArgs, plan, execPc, execLevel, inflight, execResult,
           cmdRet, commands>>

\* what the actions of one subsystem leave alone
wvars == <<waiters>>
fvars == <<newFrame, newFrameArgs>>
rvars == <<resolved>>
avars == <<agents, lastCmd>>
mvars == <<nodeWriter, nodeReaders, indexOwner, wpc, wtarget, wrec, wtodo, wframe,
           storedFrames, indexedFrames, nodeHead, nextFrame>>
kvars == <<agentLimiters, lpc, lagent, lwake, lclock, starts>>
yvars == <<runFlag, taskPc, workerHandles, callPc, taken, spawned>>
evars == <<batcherPending, lastEventTime, daemonPending, processedEvents, watchClock, lastBatchTime, received>>
hvars == <<nodeRecords, statusHeads, lastStatus>>
notQueue == <<svars, lvars, dvars, pvars, wvars, fvars, rvars, avars, mvars, kvars, yvars, evars, hvars>>
notDrain == <<svars, lvars, pvars, wvars, fvars, rvars, avars, mvars, kvars, yvars, evars, hvars>>
notPlan == <<qvars, popped, svars, lvars, dvars, wvars, fvars, rvars, avars, mvars, kvars, yvars, evars, hvars>>
notWait == <<svars, lvars, dvars, pvars, fvars, rvars, avars, mvars, kvars, yvars, evars, hvars>>
notStore == <<qvars, popped, lvars, dvars, pvars, wvars, fvars, rvars, avars, mvars, kvars, yvars, evars, hvars>>
notLocks == <<qvars, popped, svars, dvars, pvars, wvars, fvars, rvars, avars, mvars, kvars, yvars, evars, hvars>>
notFrame == <<qvars, popped, svars, lvars, dvars, pvars, wvars, rvars, avars, mvars, kvars, yvars, evars, hvars>>
notPaths == <<qvars, popped, svars, lvars, dvars, pvars, wvars, fvars, avars, mvars, kvars, yvars, evars, hvars>>
notAuth == <<qvars, popped, svars, lvars, dvars, wvars, fvars, rvars, mvars, kvars, yvars, evars, hvars>>
notWrite == <<qvars, popped, svars, lvars, dvars, pvars, wvars, fvars, rvars, avars, kvars, yvars, evars, hvars>>
notLimit == <<qvars, popped, svars, lvars, dvars, pvars, wvars, fvars, rvars, avars, mvars, yvars, evars, hvars>>
notLife == <<qvars, popped, svars, lvars, dvars, pvars, wvars, fvars, rvars, avars, mvars, kvars, evars, hvars>>
notWatch == <<qvars, popped, svars, lvars, dvars, pvars, wvars, fvars, rvars, avars, mvars, kvars, yvars, hvars>>
notStatus == <<qvars, popped, svars, lvars, dvars, pvars, wvars, fvars, rvars, avars, mvars, kvars, yvars, evars>>

vars == <<qvars, popped, svars, lvars, dvars, pvars, wvars, fvars, rvars, avars, mvars, kvars, yvars, evars, hvars>>

(***************************************************************************)
(* impl Ord for GenerationRequest                                          *)
(***************************************************************************)
\* Ordering as an integer: 1 Greater, 0 Equal, -1 Less
CmpInt(a, b) == IF a > b THEN 1 ELSE IF a < b THEN -1 ELSE 0

\* mutant: the created_at comparison is not reversed (newest first)
RequestCmp_NewestFirst(a, b) ==
    IF CmpInt(a.priority, b.priority) = 0
    THEN CmpInt(a.created_at, b.created_at)
    ELSE CmpInt(a.priority, b.priority)

\* priority first; on equal priority the older created_at is Greater
RequestCmp(a, b) ==
    IF CmpInt(a.priority, b.priority) = 0
    THEN -CmpInt(a.created_at, b.created_at)
    ELSE CmpInt(a.priority, b.priority)

\* BinaryHeap::pop returns a greatest element; which of several equal ones is
\* not specified by the heap
HeapMax(q) == {r \in q : \A o \in q : RequestCmp(o, r) <= 0}

\* usize::saturating_sub
SaturatingSub(a, b) == IF a >= b THEN a - b ELSE 0

Min(a, b) == IF a <= b THEN a ELSE b

(***************************************************************************)
(* tokio::sync::Notify::notify_one: wake one waiting worker, else store    *)
(* the single permit.                                                      *)
(***************************************************************************)
Waiters(p) == {w \in Workers : p[w] = "wait"}

\* the (pc, permit) pairs one notify_one call can produce
NotifyOne(p, permit) ==
    IF Waiters(p) = {}
    THEN {<<p, TRUE>>}
    ELSE {<<[p EXCEPT ![w] = "top"], permit>> : w \in Waiters(p)}

\* n consecutive notify_one calls
RECURSIVE NotifyN(_, _, _)
NotifyN(n, p, permit) ==
    IF n = 0 THEN {<<p, permit>>}
    ELSE UNION {NotifyN(n - 1, x[1], x[2]) : x \in NotifyOne(p, permit)}

(***************************************************************************)
(* FrameGenerationQueue::new                                               *)
(***************************************************************************)
QueueInit ==
    /\ queue = {}
    /\ stats = [pending |-> 0, processing |-> 0, completed |-> 0, failed |-> 0]
    /\ running = FALSE
    /\ notifyPermit = FALSE
    /\ rate_limiters = [a \in {} |-> 0]
    /\ pc = [w \in Workers |-> "none"]
    /\ wreq = [w \in Workers |-> NoReq]
    /\ clock = 0
    /\ nextId = 0
    /\ wres = [w \in Workers |-> "none"]
    /\ ret = <<"new", "Ok">>
    /\ attempts = [i \in 1..MaxReq |-> 0]

\* GenerationRequest built by enqueue / enqueue_batch
NewRequest(id, agent, prio, t) ==
    [id |-> id, agent_id |-> agent, priority |-> prio, retry_count |-> 0,
     created_at |-> t]


(***************************************************************************)
(* FrameGenerationQueue::enqueue.  The queue mutex is held for the whole   *)
(* call, so the size check, the push, the stats update and the notify are  *)
(* one step for every other holder of the queue mutex.                     *)
(***************************************************************************)
\* mutant: the size check is off by one
EnqueueFull_OffByOne(q) == Cardinality(q) > MaxQueueSize

\* `queue.len() >= self.config.max_queue_size`
EnqueueFull(q) == Cardinality(q) >= MaxQueueSize

Enqueue(agent, prio, t) ==
    /\ IF EnqueueFull(queue)
       THEN /\ ret' = <<"enqueue", "ConfigError">>
            /\ UNCHANGED <<queue, stats, nextId, pc, notifyPermit, clock>>
       ELSE /\ nextId < MaxReq
            /\ t >= clock
            /\ clock' = t
            /\ nextId' = nextId + 1
            /\ queue' = queue \cup {NewRequest(nextId + 1, agent, prio, t)}
            /\ stats' = [stats EXCEPT !.pending = @ + 1]
            /\ \E x \in NotifyOne(pc, notifyPermit) :
                   /\ pc' = x[1]
                   /\ notifyPermit' = x[2]
            /\ ret' = <<"enqueue", "Ok">>
    /\ UNCHANGED <<running, rate_limiters, wreq, wres, attempts, popped>>

(***************************************************************************)
(* FrameGenerationQueue::enqueue_batch.  As enqueue, under the queue mutex *)
(* for the whole call.  batch[i] = <<agent_id, priority, created_at>>.     *)
(***************************************************************************)
\* mutant: the size check ignores the batch size
BatchFull_IgnoresBatchSize(q, batch_size) == Cardinality(q) >= MaxQueueSize

\* `queue.len() + batch_size > self.config.max_queue_size`
BatchFull(q, batch_size) == Cardinality(q) + batch_size > MaxQueueSize

\* the requests pushed by the loop over the batch
BatchRequests(batch, firstId) ==
    {NewRequest(firstId + i, batch[i][1], batch[i][2], batch[i][3]) :
        i \in 1..Len(batch)}

\* Instant::now() is monotonic: the stamps of one batch do not decrease
MonotoneFrom(batch, t0) ==
    \A i \in 1..Len(batch) :
        /\ batch[i][3] >= t0
        /\ \A j \in 1..Len(batch) : i < j => batch[i][3] <= batch[j][3]

EnqueueBatch(batch) ==
    /\ IF BatchFull(queue, Len(batch))
       THEN /\ ret' = <<"enqueue_batch", "ConfigError">>
            /\ UNCHANGED <<queue, stats, nextId, pc, notifyPermit, clock>>
       ELSE /\ nextId + Len(batch) <= MaxReq
            /\ MonotoneFrom(batch, clock)
            /\ clock' = IF Len(batch) = 0 THEN clock ELSE batch[Len(batch)][3]
            /\ nextId' = nextId + Len(batch)
            /\ queue' = queue \cup BatchRequests(batch, nextId)
            /\ stats' = [stats EXCEPT !.pending = @ + Len(batch)]
            /\ \E x \in NotifyN(Min(Len(batch), WorkersPerAgent), pc, notifyPermit) :
                   /\ pc' = x[1]
                   /\ notifyPermit' = x[2]
            /\ ret' = <<"enqueue_batch", "Ok">>
    /\ UNCHANGED <<running, rate_limiters, wreq, wres, attempts, popped>>

(***************************************************************************)
(* FrameGenerationQueue::start: spawns workers_per_agent worker tasks      *)
(* unless the queue is already running.                                    *)
(***************************************************************************)
Start ==
    /\ stopPc # "join"   \* start and stop are called by one controlling task
    /\ IF running
       THEN UNCHANGED <<running, pc>>
       ELSE /\ running' = TRUE
            /\ pc' = [w \in Workers |-> "top"]
    /\ UNCHANGED <<ret, queue, stats, notifyPermit, rate_limiters, wreq, wres, clock,
                   nextId, attempts, popped>>

(***************************************************************************)
(* FrameGenerationQueue::worker_loop, one action per lock scope or         *)
(* suspension point.                                                       *)
(***************************************************************************)
\* `while *running.read()`
WorkerTop(w) ==
    /\ pc[w] = "top"
    /\ pc' = [pc EXCEPT ![w] = IF running THEN "pop" ELSE "none"]
    /\ UNCHANGED <<queue, stats, running, notifyPermit, rate_limiters, wreq, wres,
                   clock, nextId, ret, attempts, popped>>

\* queue.lock().await; queue_guard.pop(): a request, or nothing and the
\* worker polls notify.notified() (taking a stored permit or waiting)
WorkerPop(w) ==
    /\ pc[w] = "pop"
    /\ IF queue = {}
       THEN /\ IF notifyPermit
               THEN /\ notifyPermit' = FALSE
                    /\ pc' = [pc EXCEPT ![w] = "top"]
               ELSE /\ notifyPermit' = notifyPermit
                    /\ pc' = [pc EXCEPT ![w] = "wait"]
            /\ UNCHANGED <<queue, wreq>>
       ELSE \E r \in HeapMax(queue) :
                /\ queue' = queue \ {r}
                /\ wreq' = [wreq EXCEPT ![w] = r]
                /\ pc' = [pc EXCEPT ![w] = "stats_pop"]
                /\ UNCHANGED notifyPermit
    /\ UNCHANGED <<stats, running, rate_limiters, wres, clock, nextId, ret,
                   attempts, popped>>

\* the 100 ms timeout branch of the select!
WorkerTimeout(w) ==
    /\ pc[w] = "wait"
    /\ pc' = [pc EXCEPT ![w] = "top"]
    /\ UNCHANGED <<queue, stats, running, notifyPermit, rate_limiters, wreq, wres,
                   clock, nextId, ret, attempts, popped>>

\* stats.pending = saturating_sub(1); stats.processing += 1
WorkerStatsPop(w) ==
    /\ pc[w] = "stats_pop"
    /\ stats' = [stats EXCEPT !.pending = SaturatingSub(@, 1), !.processing = @ + 1]
    /\ pc' = [pc EXCEPT ![w] = "acquire"]
    /\ UNCHANGED <<queue, running, notifyPermit, rate_limiters, wreq, wres, clock,
                   nextId, ret, attempts, popped>>

\* free permits of the agent's semaphore; the limiter is created on first use
FreePermits(a) ==
    IF a \in DOMAIN rate_limiters THEN rate_limiters[a] ELSE MaxConcurrentPerAgent

\* rate_limiters.entry(agent).or_insert_with(..); semaphore.acquire().await
\* (rate_limit_ms = None: no minimum delay between requests); then
\* process_request starts
WorkerAcquire(w) ==
    /\ pc[w] = "acquire"
    /\ FreePermits(wreq[w].agent_id) > 0
    /\ rate_limiters' = [a \in DOMAIN rate_limiters \cup {wreq[w].agent_id} |->
                            IF a = wreq[w].agent_id THEN FreePermits(a) - 1
                            ELSE rate_limiters[a]]
    /\ pc' = [pc EXCEPT ![w] = "process"]
    /\ attempts' = [attempts EXCEPT ![wreq[w].id] = @ + 1]
    /\ UNCHANGED <<queue, stats, running, notifyPermit, wreq, wres, clock, nextId,
                   ret, popped>>

\* process_request(..).await returns Ok(frame_id) or Err(kind)
WorkerProcess(w, result) ==
    /\ pc[w] = "process"
    /\ wres' = [wres EXCEPT ![w] = result]
    /\ pc' = [pc EXCEPT ![w] = "result"]
    /\ UNCHANGED <<queue, stats, running, notifyPermit, rate_limiters, wreq, clock,
                   nextId, ret, attempts, popped>>

\* is_retryable_error with configuration errors retried as well
IsRetryableError_ConfigRetried(kind) ==
    CASE kind = "ProviderNotConfigured" -> FALSE
      [] OTHER -> TRUE

\* is_retryable_error
IsRetryableError(kind) ==
    CASE kind = "ConfigError" -> FALSE
      [] kind = "ProviderNotConfigured" -> FALSE
      [] kind = "ProviderRateLimit" -> TRUE
      [] kind = "ProviderRequestFailed" -> TRUE
      [] kind = "ProviderError" -> TRUE
      [] OTHER -> TRUE

\* mutant: one retry too many
ShouldRetry_OffByOne(req, kind) ==
    req.retry_count <= MaxRetryAttempts /\ IsRetryableError(kind)

\* `request.retry_count < config.max_retry_attempts && is_retryable_error(..)`
ShouldRetry(req, kind) ==
    req.retry_count < MaxRetryAttempts /\ IsRetryableError(kind)

\* mutant: the permit is never returned to the semaphore
ReleasePermit_Leaked(limiters, a) == limiters

\* drop of the SemaphorePermit
ReleasePermit(limiters, a) == [limiters EXCEPT ![a] = @ + 1]

\* the stats block after process_request.  Without a retry the loop body
\* ends here and _permit is dropped; with a retry request.retry_count += 1
\* and the worker goes to sleep(retry_delay) still holding _permit.
WorkerResult(w) ==
    /\ pc[w] = "result"
    /\ wres' = [wres EXCEPT ![w] = "none"]
    /\ IF wres[w] = "Ok"
       THEN /\ stats' = [stats EXCEPT !.processing = SaturatingSub(@, 1),
                                      !.completed = @ + 1]
            /\ attempts' = [attempts EXCEPT ![wreq[w].id] = 0]
            /\ rate_limiters' = ReleasePermit(rate_limiters, wreq[w].agent_id)
            /\ wreq' = [wreq EXCEPT ![w] = NoReq]
            /\ pc' = [pc EXCEPT ![w] = "top"]
       ELSE IF ShouldRetry(wreq[w], wres[w])
            THEN /\ stats' = [stats EXCEPT !.processing = SaturatingSub(@, 1)]
                 /\ wreq' = [wreq EXCEPT ![w].retry_count = @ + 1]
                 /\ pc' = [pc EXCEPT ![w] = "retry_sleep"]
                 /\ UNCHANGED <<attempts, rate_limiters>>
            ELSE /\ stats' = [stats EXCEPT !.processing = SaturatingSub(@, 1),
                                           !.failed = @ + 1]
                 /\ attempts' = [attempts EXCEPT ![wreq[w].id] = 0]
                 /\ rate_limiters' = ReleasePermit(rate_limiters, wreq[w].agent_id)
                 /\ wreq' = [wreq EXCEPT ![w] = NoReq]
                 /\ pc' = [pc EXCEPT ![w] = "top"]
    /\ UNCHANGED <<queue, running, notifyPermit, clock, nextId, ret, popped>>

\* after sleep(retry_delay): queue.lock().await; queue_guard.push(request)
WorkerRequeue(w) ==
    /\ pc[w] = "retry_sleep"
    /\ queue' = queue \cup {wreq[w]}
    /\ pc' = [pc EXCEPT ![w] = "notify_retry"]
    /\ UNCHANGED <<stats, running, notifyPermit, rate_limiters, wreq, wres, clock,
                   nextId, ret, attempts, popped>>

\* notify.notify_one() after the retry push
WorkerNotifyRetry(w) ==
    /\ pc[w] = "notify_retry"
    /\ \E x \in NotifyOne([pc EXCEPT ![w] = "stats_retry"], notifyPermit) :
           /\ pc' = x[1]
           /\ notifyPermit' = x[2]
    /\ UNCHANGED <<queue, stats, running, rate_limiters, wreq, wres, clock, nextId,
                   ret, attempts, popped>>

\* stats.pending += 1; the loop body ends and _permit is dropped
WorkerStatsRetry(w) ==
    /\ pc[w] = "stats_retry"
    /\ stats' = [stats EXCEPT !.pending = @ + 1]
    /\ rate_limiters' = ReleasePermit(rate_limiters, wreq[w].agent_id)
    /\ wreq' = [wreq EXCEPT ![w] = NoReq]
    /\ pc' = [pc EXCEPT ![w] = "top"]
    /\ UNCHANGED <<queue, running, notifyPermit, wres, clock, nextId, ret, attempts,
                   popped>>

\* the time stamps a call made at `clock` can read
Stamps == clock..Min(clock + 1, MaxTime)

\* the batches callers pass to enqueue_batch
Batches ==
    UNION {[1..n -> Agents \X QueuePriorities \X Stamps] : n \in 0..MaxBatch}

QueueNext ==
    \/ \E a \in Agents, p \in QueuePriorities, t \in Stamps : Enqueue(a, p, t) /\ UNCHANGED notQueue
    \/ \E b \in Batches : EnqueueBatch(b) /\ UNCHANGED notQueue
    \/ Start /\ UNCHANGED notQueue
    \/ \E w \in Workers : WorkerTop(w) /\ UNCHANGED notQueue
    \/ \E w \in Workers : WorkerPop(w) /\ UNCHANGED notQueue
    \/ \E w \in Workers : WorkerTimeout(w) /\ UNCHANGED notQueue
    \/ \E w \in Workers : WorkerStatsPop(w) /\ UNCHANGED notQueue
    \/ \E w \in Workers : WorkerAcquire(w) /\ UNCHANGED notQueue
    \/ \E w \in Workers, r \in {"Ok"} \cup ErrorKinds : WorkerProcess(w, r) /\ UNCHANGED notQueue
    \/ \E w \in Workers : WorkerResult(w) /\ UNCHANGED notQueue
    \/ \E w \in Workers : WorkerRequeue(w) /\ UNCHANGED notQueue
    \/ \E w \in Workers : WorkerNotifyRetry(w) /\ UNCHANGED notQueue
    \/ \E w \in Workers : WorkerStatsRetry(w) /\ UNCHANGED notQueue

(***************************************************************************)
(* stop and wait_for_completion, called while the workers run.             *)
(***************************************************************************)
\* `for handle in workers { handle.await }` is over, without waiting
AllWorkersExited_NoWait(p) == TRUE

\* `for handle in workers { handle.await }` is over: every worker task ended
AllWorkersExited(p) == \A w \in Workers : p[w] = "none"

\* stop, up to the first handle.await: an early return on a stopped queue,
\* else the running flag is cleared and the caller starts joining the workers
Stop ==
    /\ stopPc # "join"
    /\ IF ~running
       THEN /\ stopPc' = "returned"
            /\ UNCHANGED running
       ELSE /\ running' = FALSE
            /\ stopPc' = "join"
    /\ UNCHANGED <<queue, stats, notifyPermit, rate_limiters, pc, wreq, wres, clock,
                   nextId, ret, attempts, popped, waitRet>>

\* stop returns once every worker handle has been awaited
StopJoin ==
    /\ stopPc = "join"
    /\ AllWorkersExited(pc)
    /\ stopPc' = "returned"
    /\ UNCHANGED <<qvars, popped, waitRet>>

\* wait_for_completion: `queue.is_empty() && stats.processing == 0`, read
\* with the queue lock and the stats lock both held
Drained(q, st) == q = {} /\ st.processing = 0

\* one poll of wait_for_completion that ends the call: Ok when drained, the
\* timeout error when the deadline has passed (a poll that goes back to
\* sleep changes nothing)
WaitForCompletion(timed_out) ==
    /\ IF Drained(queue, stats)
       THEN waitRet' = "Ok"
       ELSE /\ timed_out
            /\ waitRet' = "ConfigError"
    /\ UNCHANGED <<qvars, popped, stopPc>>

DrainNext ==
    \/ \E a \in Agents, p \in QueuePriorities, t \in Stamps :
           Enqueue(a, p, t) /\ UNCHANGED notQueue
    \/ Start /\ UNCHANGED notQueue
    \/ Stop /\ UNCHANGED notDrain
    \/ StopJoin /\ UNCHANGED notDrain
    \/ \E timed_out \in BOOLEAN : WaitForCompletion(timed_out) /\ UNCHANGED notDrain
    \/ \E w \in Workers : WorkerTop(w) /\ UNCHANGED notQueue
    \/ \E w \in Workers : WorkerPop(w) /\ UNCHANGED notQueue
    \/ \E w \in Workers : WorkerTimeout(w) /\ UNCHANGED notQueue
    \/ \E w \in Workers : WorkerStatsPop(w) /\ UNCHANGED notQueue
    \/ \E w \in Workers : WorkerAcquire(w) /\ UNCHANGED notQueue
    \/ \E w \in Workers, r \in {"Ok", "ProviderError"} :
           WorkerProcess(w, r) /\ UNCHANGED notQueue
    \/ \E w \in Workers : WorkerResult(w) /\ UNCHANGED notQueue
    \/ \E w \in Workers : WorkerRequeue(w) /\ UNCHANGED notQueue
    \/ \E w \in Workers : WorkerNotifyRetry(w) /\ UNCHANGED notQueue
    \/ \E w \in Workers : WorkerStatsRetry(w) /\ UNCHANGED notQueue

(***************************************************************************)
(* enqueue_and_wait: a caller enqueues one request and is suspended until  *)
(* that request is done or its deadline passes.                            *)
(***************************************************************************)
GENERATE_FRAME_PRIORITY == Urgent

\* a worker is done with a request after any result
Terminal_AnyResult(req, result) == TRUE

\* the stats block of worker_loop ends a request: Ok, or an error that is
\* not retried
Terminal(req, result) == result = "Ok" \/ ~ShouldRetry(req, result)

\* generate_frame: enqueue_and_wait at GENERATE_FRAME_PRIORITY; a request
\* that was accepted gets a waiter, a refused one returns its error at once
EnqueueAndWait(agent, t) ==
    /\ Enqueue(agent, GENERATE_FRAME_PRIORITY, t)
    /\ waiters' = IF nextId' = nextId + 1
                  THEN [waiters EXCEPT ![nextId + 1] = "waiting"]
                  ELSE waiters

\* the worker's stats block, and the outcome handed to the request's waiter
\* once the request is done
WorkerResultNotify(w) ==
    /\ WorkerResult(w)
    /\ waiters' = IF Terminal(wreq[w], wres[w]) /\ waiters[wreq[w].id] = "waiting"
                  THEN [waiters EXCEPT ![wreq[w].id] = wres[w]]
                  ELSE waiters

\* the deadline of a suspended caller passes: it returns Timeout, the
\* request stays where it is
WaitTimeout(id) ==
    /\ waiters[id] = "waiting"
    /\ waiters' = [waiters EXCEPT ![id] = "Timeout"]
    /\ UNCHANGED <<qvars, popped>>

WaitNext ==
    \/ \E a \in Agents, t \in Stamps : EnqueueAndWait(a, t) /\ UNCHANGED notWait
    \/ Start /\ UNCHANGED notQueue
    \/ \E id \in 1..MaxReq : WaitTimeout(id) /\ UNCHANGED notWait
    \/ \E w \in Workers : WorkerTop(w) /\ UNCHANGED notQueue
    \/ \E w \in Workers : WorkerPop(w) /\ UNCHANGED notQueue
    \/ \E w \in Workers : WorkerTimeout(w) /\ UNCHANGED notQueue
    \/ \E w \in Workers : WorkerStatsPop(w) /\ UNCHANGED notQueue
    \/ \E w \in Workers : WorkerAcquire(w) /\ UNCHANGED notQueue
    \/ \E w \in Workers, r \in {"Ok", "ConfigError", "ProviderError"} :
           WorkerProcess(w, r) /\ UNCHANGED notQueue
    \/ \E w \in Workers : WorkerResultNotify(w) /\ UNCHANGED notWait
    \/ \E w \in Workers : WorkerRequeue(w) /\ UNCHANGED notQueue
    \/ \E w \in Workers : WorkerNotifyRetry(w) /\ UNCHANGED notQueue
    \/ \E w \in Workers : WorkerStatsRetry(w) /\ UNCHANGED notQueue

(***************************************************************************)
(* The BinaryHeap<GenerationRequest> on its own: pushes as enqueue makes   *)
(* them (created_at = Instant::now()) and the pops of a single consumer.   *)
(***************************************************************************)
\* `queue.push(request)` of enqueue, request stamped with Instant::now()
HeapPush(agent, prio, t) ==
    /\ nextId < HeapMaxReq
    /\ t >= clock
    /\ clock' = t
    /\ nextId' = nextId + 1
    /\ queue' = queue \cup {NewRequest(nextId + 1, agent, prio, t)}
    /\ UNCHANGED <<stats, running, notifyPermit, rate_limiters, pc, wreq, wres, ret,
                   attempts, popped>>

\* `queue_guard.pop()` of the worker loop
HeapPop ==
    /\ queue # {}
    /\ \E r \in HeapMax(queue) :
           /\ queue' = queue \ {r}
           /\ popped' = Append(popped, <<r, Cardinality(queue) - 1>>)
    /\ UNCHANGED <<stats, running, notifyPermit, rate_limiters, pc, wreq, wres, clock,
                   nextId, ret, attempts>>

HeapNext ==
    \/ \E a \in Agents, p \in Priority, t \in clock..Min(clock + 1, HeapMaxTime) :
           HeapPush(a, p, t) /\ UNCHANGED notQueue
    \/ HeapPop /\ UNCHANGED notQueue

(***************************************************************************)
(* The context store: node records, frame storage, head index and basis    *)
(* index, with the hash derivations the regenerator relies on.             *)
(* A Hash is modelled by the canonical input it digests (a collision-free   *)
(* hash), an Option by a sequence of length 0 or 1, a HashMap<String,       *)
(* String> of frame metadata by a record of Options (one per key used).     *)
(***************************************************************************)
\* NodeRecord.children of every NodeID of the scanned tree: 1 and 2 are
\* directories, 3 and 4 files
Children == << <<3, 2>>, <<4>>, <<>>, <<>> >>
Nodes == DOMAIN Children
Directories == {n \in Nodes : Children[n] # <<>>}
Files == Nodes \ Directories
FrameTypes == {"context", "summary"}
AuthoredContents == {<<"alpha">>, <<"beta">>}
AgentIds == {"agent-1"}
\* the orders in which a HashMap iteration can yield a node's head frames
TypeOrders == {<<"context", "summary">>, <<"summary", "context">>}

Some(x) == <<x>>
None == <<>>

Concatenation == "SynthesisPolicy::Concatenation"
Summarization == "SynthesisPolicy::Summarization"
\* the policies the synthesizer is run with
SynthesizerPolicies == {Concatenation}

NodeBasis(n) == [kind |-> "Node", node |-> Some(n), frame |-> None]
FrameBasis(id) == [kind |-> "Frame", node |-> None, frame |-> Some(id)]

Digest(x) == [digest |-> x]
ComputeFrameId(basis, content, frame_type, agent_id) ==
    Digest([basis |-> basis, content |-> content, frame_type |-> frame_type,
            agent_id |-> agent_id])
ComputeBasisHash(basis) == Digest(basis)
\* SynthesisBasis::compute_hash
SynthesisBasisHash(node_id, child_frame_ids, frame_type, synthesis_policy) ==
    Digest([node_id |-> node_id, child_frame_ids |-> child_frame_ids,
            frame_type |-> frame_type, synthesis_policy |-> synthesis_policy])

\* the 64 lower-case hex digits of a hash, and hex_string_to_hash on them
HexOf(hash) == [hex |-> hash]
HexStringToHash(s) == Some(s.hex)

\* format!("{:?}", policy) and the policy name the synthesizer writes
DebugFormat(policy) == IF policy = Summarization THEN "Summarization" ELSE "Concatenation"
PolicyName(policy) == IF policy = Summarization THEN "summarization" ELSE "concatenation"

EmptyMetadata ==
    [agent_id |-> None, synthesis_policy |-> None, basis_hash |-> None,
     child_frame_count |-> None]

\* Frame::new with `entry("agent_id").or_insert(agent_id)` in place of insert
FrameNew_KeepsSuppliedAgent(basis, content, frame_type, agent_id, metadata) ==
    [frame_id |-> ComputeFrameId(basis, content, frame_type, agent_id),
     basis |-> basis,
     content |-> content,
     frame_type |-> frame_type,
     metadata |-> [metadata EXCEPT
                      !.agent_id = IF @ = None THEN Some(agent_id) ELSE @]]

\* Frame::new (the timestamp, which nothing reads, is left out)
FrameNew(basis, content, frame_type, agent_id, metadata) ==
    [frame_id |-> ComputeFrameId(basis, content, frame_type, agent_id),
     basis |-> basis,
     content |-> content,
     frame_type |-> frame_type,
     metadata |-> [metadata EXCEPT !.agent_id = Some(agent_id)]]

\* FrameStorage::get and FrameStorage::store (re-storing a FrameID is a no-op)
StorageGet(fs, id) ==
    LET found == {f \in fs : f.frame_id = id}
    IN  IF found = {} THEN None ELSE Some(CHOOSE f \in found : TRUE)
StorageStore(fs, frame) ==
    IF \E f \in fs : f.frame_id = frame.frame_id THEN fs ELSE fs \cup {frame}

\* HeadIndex
GetHead(h, node_id, frame_type) ==
    IF <<node_id, frame_type>> \in DOMAIN h THEN Some(h[<<node_id, frame_type>>]) ELSE None
UpdateHead(h, node_id, frame_type, frame_id) ==
    [k \in DOMAIN h \cup {<<node_id, frame_type>>} |->
        IF k = <<node_id, frame_type>> THEN frame_id ELSE h[k]]
GetAllHeadsForNode(h, node_id) == {h[k] : k \in {j \in DOMAIN h : j[1] = node_id}}

\* BasisIndex
BasisIndexNew == [index |-> <<>>, reverse |-> <<>>]
\* add_frame that replaces the list of the basis hash
AddFrame_ReplaceBucket(bi, basis_hash, frame_id) ==
    [index |-> [k \in DOMAIN bi.index \cup {basis_hash} |->
                   IF k = basis_hash THEN <<frame_id>> ELSE bi.index[k]],
     reverse |-> [k \in DOMAIN bi.reverse \cup {frame_id} |->
                     IF k = frame_id THEN basis_hash ELSE bi.reverse[k]]]

AddFrame(bi, basis_hash, frame_id) ==
    [index |-> [k \in DOMAIN bi.index \cup {basis_hash} |->
                   IF k = basis_hash
                   THEN Append(IF basis_hash \in DOMAIN bi.index
                               THEN bi.index[basis_hash] ELSE <<>>, frame_id)
                   ELSE bi.index[k]],
     reverse |-> [k \in DOMAIN bi.reverse \cup {frame_id} |->
                     IF k = frame_id THEN basis_hash ELSE bi.reverse[k]]]
RemoveFrame(bi, frame_id) ==
    IF frame_id \notin DOMAIN bi.reverse
    THEN bi
    ELSE LET basis_hash == bi.reverse[frame_id]
             rev == [k \in DOMAIN bi.reverse \ {frame_id} |-> bi.reverse[k]]
         IN  IF basis_hash \notin DOMAIN bi.index
             THEN [index |-> bi.index, reverse |-> rev]
             ELSE LET kept == SelectSeq(bi.index[basis_hash], LAMBDA id : id # frame_id)
                  IN  [index |-> IF kept = <<>>
                                 THEN [k \in DOMAIN bi.index \ {basis_hash} |-> bi.index[k]]
                                 ELSE [bi.index EXCEPT ![basis_hash] = kept],
                       reverse |-> rev]
GetBasisForFrame(bi, frame_id) ==
    IF frame_id \in DOMAIN bi.reverse THEN Some(bi.reverse[frame_id]) ELSE None
RECURSIVE SumLen(_, _)
SumLen(f, keys) ==
    IF keys = {} THEN 0
    ELSE LET k == CHOOSE x \in keys : TRUE IN Len(f[k]) + SumLen(f, keys \ {k})
\* number of FrameIDs the forward map lists
IndexEntries(bi) == SumLen(bi.index, DOMAIN bi.index)

\* no regenerate_node call was the last operation on the store
NoReport ==
    [result |-> "none", regenerated_count |-> 0, failed |-> None, head_before |-> None]

StoreInit ==
    /\ frames = {}
    /\ heads = <<>>
    /\ basis_index = BasisIndexNew
    /\ report = NoReport

(***************************************************************************)
(* Synthesis and regeneration                                              *)
(***************************************************************************)
Separator == "---"
EmptyDirectory == <<"Empty directory">>

HasChildFrame(st, child, frame_type) ==
    /\ GetHead(st.heads, child, frame_type) # None
    /\ StorageGet(st.frames, GetHead(st.heads, child, frame_type)[1]) # None

\* the (child NodeID, head frame) pairs of detect_basis_changes, sorted by
\* (NodeID, FrameID); a child has one head per type, so NodeIDs never tie
\* the child frames in the order the node record lists the children
ChildFramesOf_RecordOrder(children, frame_type, st) ==
    LET present == SelectSeq(children, LAMBDA c : HasChildFrame(st, c, frame_type))
    IN  [i \in 1..Len(present) |->
            <<present[i], StorageGet(st.frames, st.heads[<<present[i], frame_type>>])[1]>>]

\* `for child_node_id in &node_record.children { .. }` and the sort, for a
\* node record that lists `children`
ChildFramesOf(children, frame_type, st) ==
    LET present == SelectSeq(children, LAMBDA c : HasChildFrame(st, c, frame_type))
        sorted == SortSeq(present, LAMBDA a, b : a < b)
    IN  [i \in 1..Len(sorted) |->
            <<sorted[i], StorageGet(st.frames, st.heads[<<sorted[i], frame_type>>])[1]>>]

ChildFrames(node_id, frame_type, st) == ChildFramesOf(Children[node_id], frame_type, st)

\* synthesis::collect_child_frames
CollectChildFrames(node_id, frame_type, st) == ChildFrames(node_id, frame_type, st)

ChildFrameIds(child_frames) ==
    [i \in 1..Len(child_frames) |-> child_frames[i][2].frame_id]

RECURSIVE JoinContents(_, _)
JoinContents(child_frames, i) ==
    IF i > Len(child_frames) THEN <<>>
    ELSE IF i = Len(child_frames) THEN child_frames[i][2].content
    ELSE child_frames[i][2].content \o <<Separator>> \o JoinContents(child_frames, i + 1)

\* synthesis::synthesize_content
SynthesizeContent(child_frames, policy) ==
    IF policy = Summarization
    THEN <<"summary">> \o JoinContents(child_frames, 1)
    ELSE JoinContents(child_frames, 1)

\* the policy detect_basis_changes reads from the head's metadata
DetectPolicy(metadata) ==
    IF metadata.synthesis_policy = None THEN Concatenation
    ELSE LET policy_str == metadata.synthesis_policy[1]
         IN  IF policy_str = "concatenation" \/ policy_str = "Concatenation"
             THEN Concatenation
             ELSE IF policy_str = "summarization" \/ policy_str = "Summarization"
             THEN Summarization
             ELSE Concatenation

\* the policy regenerate_node reads from the head's metadata
RegenPolicy(metadata) ==
    IF metadata.synthesis_policy = None THEN Concatenation
    ELSE LET policy_str == metadata.synthesis_policy[1]
         IN  IF policy_str = "concatenation" THEN Concatenation
             ELSE IF policy_str = "summarization" THEN Summarization
             ELSE Concatenation

\* the loop body of detect_basis_changes without the synthesis basis: every
\* head is compared through the basis index only
TypeChanged_BasisIndexOnly(node_id, frame_type, st) ==
    LET head == GetHead(st.heads, node_id, frame_type)
    IN  IF head = None THEN FALSE
        ELSE LET got == StorageGet(st.frames, head[1])
             IN  IF got = None THEN FALSE
                 ELSE LET stored == GetBasisForFrame(st.basis_index, head[1])
                      IN  IF stored = None THEN FALSE
                          ELSE stored[1] # ComputeBasisHash(got[1].basis)

\* one iteration of the loop of detect_basis_changes: does frame_type need
\* regeneration
TypeChanged(node_id, frame_type, st) ==
    LET head == GetHead(st.heads, node_id, frame_type)
    IN  IF head = None THEN FALSE
        ELSE LET got == StorageGet(st.frames, head[1])
             IN  IF got = None THEN FALSE
                 ELSE LET frame == got[1]
                      IN  IF frame.metadata.basis_hash # None
                          THEN LET stored == HexStringToHash(frame.metadata.basis_hash[1])
                                   child_frames == ChildFrames(node_id, frame_type, st)
                                   current ==
                                       SynthesisBasisHash(node_id, ChildFrameIds(child_frames),
                                                          frame_type,
                                                          DetectPolicy(frame.metadata))
                               IN  IF stored = None THEN FALSE ELSE stored[1] # current
                          ELSE LET stored == GetBasisForFrame(st.basis_index, head[1])
                               IN  IF stored = None THEN FALSE
                                   ELSE stored[1] # ComputeBasisHash(frame.basis)

DetectBasisChanges(node_id, frame_types, st) ==
    SelectSeq(frame_types, LAMBDA t : TypeChanged(node_id, t, st))

\* the frame types of a node's head frames, as regenerate_node collects them
NodeFrameTypes(node_id, st, order) ==
    SelectSeq(order, LAMBDA t :
        \E id \in GetAllHeadsForNode(st.heads, node_id) :
            /\ StorageGet(st.frames, id) # None
            /\ StorageGet(st.frames, id)[1].frame_type = t)

\* the state one regenerate_node call works on: the three stores, the
\* regenerated FrameIDs so far, and which of its store calls (if any) fails
NewRun(fs, h, bi, fail) ==
    [frames |-> fs, heads |-> h, basis_index |-> bi, frame_ids |-> <<>>,
     budget |-> fail, result |-> "Ok", failed |-> None, head_before |-> None]

\* store the new frame, index its basis, move the head, with the head moved
\* before the store is known to have succeeded
WriteRegenerated_HeadFirst(run, node_id, frame_type, new_frame) ==
    IF run.budget = 1
    THEN [run EXCEPT !.result = "StorageError", !.budget = 0,
                     !.failed = Some(<<node_id, frame_type>>),
                     !.head_before = GetHead(run.heads, node_id, frame_type),
                     !.heads = UpdateHead(@, node_id, frame_type, new_frame.frame_id)]
    ELSE [run EXCEPT
            !.frames = StorageStore(@, new_frame),
            !.basis_index = AddFrame(@, ComputeBasisHash(new_frame.basis),
                                     new_frame.frame_id),
            !.heads = UpdateHead(@, node_id, frame_type, new_frame.frame_id),
            !.frame_ids = Append(@, new_frame.frame_id),
            !.budget = IF @ > 1 THEN @ - 1 ELSE 0]

\* frame_storage.store(..)?; basis_index.add_frame(..); head_index.update_head(..)?;
\* regenerated_frame_ids.push(..)
WriteRegenerated(run, node_id, frame_type, new_frame) ==
    IF run.budget = 1
    THEN [run EXCEPT !.result = "StorageError", !.budget = 0,
                     !.failed = Some(<<node_id, frame_type>>),
                     !.head_before = GetHead(run.heads, node_id, frame_type)]
    ELSE [run EXCEPT
            !.frames = StorageStore(@, new_frame),
            !.basis_index = AddFrame(@, ComputeBasisHash(new_frame.basis),
                                     new_frame.frame_id),
            !.heads = UpdateHead(@, node_id, frame_type, new_frame.frame_id),
            !.frame_ids = Append(@, new_frame.frame_id),
            !.budget = IF @ > 1 THEN @ - 1 ELSE 0]

\* the frame regenerate_node builds for a directory none of whose children
\* has a head
EmptyDirectoryFrame(node_id, frame_type, agent_id, head_frame) ==
    FrameNew(NodeBasis(node_id), EmptyDirectory, frame_type, agent_id,
             [head_frame.metadata EXCEPT !.synthesis_policy = Some("concatenation")])

\* the frame regenerate_node re-synthesizes from the children's head frames
ResynthesizedFrame(node_id, frame_type, agent_id, head_frame, child_frames) ==
    LET policy == RegenPolicy(head_frame.metadata)
        child_frame_ids == ChildFrameIds(child_frames)
        basis_hash == SynthesisBasisHash(node_id, child_frame_ids, frame_type, policy)
        basis == IF Len(child_frame_ids) = 1
                 THEN FrameBasis(child_frame_ids[1])
                 ELSE NodeBasis(node_id)
        metadata == [head_frame.metadata EXCEPT
                        !.synthesis_policy = Some(DebugFormat(policy)),
                        !.basis_hash = Some(HexOf(basis_hash)),
                        !.child_frame_count = Some(Len(child_frame_ids))]
    IN  FrameNew(basis, SynthesizeContent(child_frames, policy), frame_type, agent_id,
                 metadata)

\* one iteration of `for frame_type in &changed_types`
RegenerateType(run, node_id, frame_type, agent_id) ==
    IF run.result # "Ok" THEN run
    ELSE LET head == GetHead(run.heads, node_id, frame_type)
         IN  IF head = None THEN run
             ELSE LET got == StorageGet(run.frames, head[1])
                  IN  IF got = None THEN run
                      ELSE IF got[1].metadata.basis_hash # None
                      THEN LET child_frames == CollectChildFrames(node_id, frame_type, run)
                           IN  IF child_frames = <<>>
                               THEN WriteRegenerated(run, node_id, frame_type,
                                        EmptyDirectoryFrame(node_id, frame_type, agent_id,
                                                            got[1]))
                               ELSE WriteRegenerated(run, node_id, frame_type,
                                        ResynthesizedFrame(node_id, frame_type, agent_id,
                                                           got[1], child_frames))
                      ELSE run   \* an authored frame is never regenerated

RECURSIVE RegenerateTypes(_, _, _, _, _)
RegenerateTypes(run, node_id, changed_types, i, agent_id) ==
    IF i > Len(changed_types) THEN run
    ELSE RegenerateTypes(RegenerateType(run, node_id, changed_types[i], agent_id),
                         node_id, changed_types, i + 1, agent_id)

RECURSIVE RegenerateNode(_, _, _, _, _)
RECURSIVE RegenerateChildren(_, _, _, _, _)
\* regenerate_node: the node's own changed types first, then (if recursive)
\* its children in the order of the node record
RegenerateNode(run, node_id, recursive, agent_id, order) ==
    LET frame_types == NodeFrameTypes(node_id, run, order)
        changed_types == DetectBasisChanges(node_id, frame_types, run)
        own == RegenerateTypes(run, node_id, changed_types, 1, agent_id)
    IN  IF recursive /\ own.result = "Ok"
        THEN RegenerateChildren(own, Children[node_id], 1, agent_id, order)
        ELSE own

RegenerateChildren(run, children, i, agent_id, order) ==
    IF i > Len(children) \/ run.result # "Ok" THEN run
    ELSE RegenerateChildren(RegenerateNode(run, children[i], TRUE, agent_id, order),
                            children, i + 1, agent_id, order)

\* an agent writes an authored frame: store, head, basis index
PutFrame(node_id, frame_type, content, agent_id) ==
    /\ IndexEntries(basis_index) < MaxIndexEntries
    /\ LET frame == FrameNew(NodeBasis(node_id), content, frame_type, agent_id,
                             EmptyMetadata)
       IN  /\ frames' = StorageStore(frames, frame)
           /\ heads' = UpdateHead(heads, node_id, frame_type, frame.frame_id)
           /\ basis_index' = AddFrame(basis_index, ComputeBasisHash(frame.basis),
                                      frame.frame_id)
    /\ report' = NoReport

\* the frame the synthesizer produces for a directory
SynthesizedFrame(node_id, frame_type, policy, agent_id, st) ==
    LET child_frames == CollectChildFrames(node_id, frame_type, st)
        child_frame_ids == ChildFrameIds(child_frames)
        metadata == [EmptyMetadata EXCEPT
                        !.synthesis_policy = Some(PolicyName(policy)),
                        !.basis_hash =
                            Some(HexOf(SynthesisBasisHash(node_id, child_frame_ids,
                                                          frame_type, policy))),
                        !.child_frame_count = Some(Len(child_frame_ids))]
    IN  IF child_frames = <<>>
        THEN FrameNew(NodeBasis(node_id), EmptyDirectory, frame_type, agent_id, metadata)
        ELSE FrameNew(IF Len(child_frame_ids) = 1
                      THEN FrameBasis(child_frame_ids[1])
                      ELSE NodeBasis(node_id),
                      SynthesizeContent(child_frames, policy), frame_type, agent_id,
                      metadata)

\* a directory's frame is synthesized from its children's heads
Synthesize(node_id, frame_type, policy, agent_id) ==
    /\ IndexEntries(basis_index) < MaxIndexEntries
    /\ LET frame == SynthesizedFrame(node_id, frame_type, policy, agent_id,
                                     [frames |-> frames, heads |-> heads])
       IN  /\ frames' = StorageStore(frames, frame)
           /\ heads' = UpdateHead(heads, node_id, frame_type, frame.frame_id)
           /\ basis_index' = AddFrame(basis_index, ComputeBasisHash(frame.basis),
                                      frame.frame_id)
    /\ report' = NoReport

\* one call of regenerate_node; `fail` picks the store call that fails (0: none)
Regenerate(node_id, recursive, agent_id, fail, order) ==
    /\ IndexEntries(basis_index) < MaxIndexEntries
    /\ LET run == RegenerateNode(NewRun(frames, heads, basis_index, fail), node_id,
                                 recursive, agent_id, order)
       IN  /\ frames' = run.frames
           /\ heads' = run.heads
           /\ basis_index' = run.basis_index
           /\ report' = [result |-> run.result,
                         regenerated_count |-> Len(run.frame_ids),
                         failed |-> run.failed, head_before |-> run.head_before]

RegenNext ==
    \/ \E n \in Files, t \in FrameTypes, c \in AuthoredContents, a \in AgentIds :
           PutFrame(n, t, c, a) /\ UNCHANGED notStore
    \/ \E n \in Directories, t \in FrameTypes, p \in SynthesizerPolicies, a \in AgentIds :
           Synthesize(n, t, p, a) /\ UNCHANGED notStore
    \/ \E n \in Nodes, rec \in BOOLEAN, a \in AgentIds, fail \in 0..MaxFail,
          order \in TypeOrders :
           Regenerate(n, rec, a, fail, order) /\ UNCHANGED notStore

\* arbitrary calls of the BasisIndex API, as its unit tests make them
SampleHashes == {ComputeBasisHash(NodeBasis(n)) : n \in Directories}
SampleFrameIds ==
    {ComputeFrameId(NodeBasis(n), c, "context", a) :
        n \in Directories, c \in AuthoredContents, a \in AgentIds}

BasisAdd(basis_hash, frame_id) ==
    /\ IndexEntries(basis_index) < MaxIndexEntries
    /\ basis_index' = AddFrame(basis_index, basis_hash, frame_id)
    /\ UNCHANGED <<frames, heads, report>>

BasisRemove(frame_id) ==
    /\ basis_index' = RemoveFrame(basis_index, frame_id)
    /\ UNCHANGED <<frames, heads, report>>

BasisNext ==
    \/ \E h \in SampleHashes, f \in SampleFrameIds :
           BasisAdd(h, f) /\ UNCHANGED notStore
    \/ \E f \in SampleFrameIds : BasisRemove(f) /\ UNCHANGED notStore

(***************************************************************************)
(* NodeLockManager: the map NodeID -> Arc<RwLock<()>> and the threads that  *)
(* take a node's lock, as the tests of concurrency.rs spawn them.  An       *)
(* Arc<RwLock<()>> is a lock number; lockState holds, per lock, the thread  *)
(* with the write guard (0: none) and the threads with a read guard.  The   *)
(* two critical sections of get_node_lock on the map's own RwLock are one   *)
(* step each: the map changes only inside the second.                       *)
(***************************************************************************)
Threads == 1..NumThreads
LockNodes == Directories
Unlocked == [writer |-> 0, readers |-> {}]

LocksInit ==
    /\ locks = <<>>
    /\ nextLock = 1
    /\ lockState = <<>>
    /\ tpc = [t \in Threads |-> "idle"]
    /\ tnode = [t \in Threads |-> 0]
    /\ tmode = [t \in Threads |-> "none"]
    /\ thandle = [t \in Threads |-> 0]
    /\ tpath = [t \in Threads |-> "none"]
    /\ tcurrent = [t \in Threads |-> 0]
    /\ counter = [n \in LockNodes |-> 0]

\* thread::spawn of a closure that locks node_id for reading or writing
ThreadSpawn(t, node_id, mode) ==
    /\ tpc[t] = "idle"
    /\ tpc' = [tpc EXCEPT ![t] = "lookup"]
    /\ tnode' = [tnode EXCEPT ![t] = node_id]
    /\ tmode' = [tmode EXCEPT ![t] = mode]
    /\ UNCHANGED <<locks, nextLock, lockState, thandle, tpath, tcurrent, counter>>

\* get_node_lock, first block: look the node up under the map's read guard
GetNodeLockLookup(t) ==
    /\ tpc[t] = "lookup"
    /\ IF tnode[t] \in DOMAIN locks
       THEN /\ thandle' = [thandle EXCEPT ![t] = locks[tnode[t]]]
            /\ tpath' = [tpath EXCEPT ![t] = "hit"]
            /\ tpc' = [tpc EXCEPT ![t] = "guard"]
       ELSE /\ tpath' = [tpath EXCEPT ![t] = "miss"]
            /\ tpc' = [tpc EXCEPT ![t] = "create"]
            /\ UNCHANGED thandle
    /\ UNCHANGED <<locks, nextLock, lockState, tnode, tmode, tcurrent, counter>>

\* map.entry(node_id).or_insert_with(..), with an entry that is there replaced
OrInsertWith_Overwrite(map, node_id, fresh) ==
    [k \in DOMAIN map \cup {node_id} |-> IF k = node_id THEN fresh ELSE map[k]]

\* map.entry(node_id).or_insert_with(|| Arc::new(RwLock::new(())))
OrInsertWith(map, node_id, fresh) ==
    IF node_id \in DOMAIN map
    THEN map
    ELSE [k \in DOMAIN map \cup {node_id} |-> IF k = node_id THEN fresh ELSE map[k]]

\* get_node_lock, second block: create the lock under the map's write guard
GetNodeLockCreate(t) ==
    /\ tpc[t] = "create"
    /\ locks' = OrInsertWith(locks, tnode[t], nextLock)
    /\ thandle' = [thandle EXCEPT ![t] = locks'[tnode[t]]]
    /\ nextLock' = IF locks'[tnode[t]] = nextLock THEN nextLock + 1 ELSE nextLock
    /\ lockState' = [l \in DOMAIN lockState \cup {locks'[tnode[t]]} |->
                        IF l \in DOMAIN lockState THEN lockState[l] ELSE Unlocked]
    /\ tpc' = [tpc EXCEPT ![t] = "guard"]
    /\ UNCHANGED <<tnode, tmode, tpath, tcurrent, counter>>

\* RwLock::write returns once no guard is held, with the writer test left out
WriteAvailable_IgnoresWriter(l) == l.readers = {}

\* RwLock::write returns once no guard is held
WriteAvailable(l) == l.writer = 0 /\ l.readers = {}

\* RwLock::read returns once no write guard is held
ReadAvailable(l) == l.writer = 0

\* let _guard = lock.write();
LockWrite(t) ==
    /\ tpc[t] = "guard"
    /\ tmode[t] = "write"
    /\ WriteAvailable(lockState[thandle[t]])
    /\ lockState' = [lockState EXCEPT ![thandle[t]].writer = t]
    /\ tpc' = [tpc EXCEPT ![t] = "load"]
    /\ UNCHANGED <<locks, nextLock, tnode, tmode, thandle, tpath, tcurrent, counter>>

\* let _guard = lock.read();
LockRead(t) ==
    /\ tpc[t] = "guard"
    /\ tmode[t] = "read"
    /\ ReadAvailable(lockState[thandle[t]])
    /\ lockState' = [lockState EXCEPT ![thandle[t]].readers = @ \cup {t}]
    /\ tpc' = [tpc EXCEPT ![t] = "reading"]
    /\ UNCHANGED <<locks, nextLock, tnode, tmode, thandle, tpath, tcurrent, counter>>

\* let current = counter.load(..);
CounterLoad(t) ==
    /\ tpc[t] = "load"
    /\ tcurrent' = [tcurrent EXCEPT ![t] = counter[tnode[t]]]
    /\ tpc' = [tpc EXCEPT ![t] = "store"]
    /\ UNCHANGED <<locks, nextLock, lockState, tnode, tmode, thandle, tpath, counter>>

\* counter.store(current + 1, ..);
CounterStore(t) ==
    /\ tpc[t] = "store"
    /\ counter' = [counter EXCEPT ![tnode[t]] = tcurrent[t] + 1]
    /\ tpc' = [tpc EXCEPT ![t] = "drop"]
    /\ UNCHANGED <<locks, nextLock, lockState, tnode, tmode, thandle, tpath, tcurrent>>

\* the guard is dropped at the end of the closure
DropGuard(t) ==
    /\ tpc[t] \in {"drop", "reading"}
    /\ lockState' = [lockState EXCEPT
                        ![thandle[t]] = IF tmode[t] = "write"
                                        THEN [@ EXCEPT !.writer = 0]
                                        ELSE [@ EXCEPT !.readers = @ \ {t}]]
    /\ tpc' = [tpc EXCEPT ![t] = "done"]
    /\ UNCHANGED <<locks, nextLock, tnode, tmode, thandle, tpath, tcurrent, counter>>

LocksNext ==
    \/ \E t \in Threads, n \in LockNodes, m \in {"read", "write"} :
           ThreadSpawn(t, n, m) /\ UNCHANGED notLocks
    \/ \E t \in Threads : GetNodeLockLookup(t) /\ UNCHANGED notLocks
    \/ \E t \in Threads : GetNodeLockCreate(t) /\ UNCHANGED notLocks
    \/ \E t \in Threads : LockWrite(t) /\ UNCHANGED notLocks
    \/ \E t \in Threads : LockRead(t) /\ UNCHANGED notLocks
    \/ \E t \in Threads : CounterLoad(t) /\ UNCHANGED notLocks
    \/ \E t \in Threads : CounterStore(t) /\ UNCHANGED notLocks
    \/ \E t \in Threads : DropGuard(t) /\ UNCHANGED notLocks

(***************************************************************************)
(* context generate: the planner of the CLI and the level-by-level         *)
(* executor that runs its plan through the queue.                          *)
(***************************************************************************)
PlanNodes == 1..MaxPlanNodes

\* node records of three workspaces: children lists as the records hold
\* them, and which nodes are directories (node 1 is the workspace root)
PlanTrees ==
    { [children |-> << <<2, 3>>, <<4>>, <<>>, <<5>>, <<>> >>, dirs |-> {1, 2, 4}],
      [children |-> << <<3, 2>>, <<5, 4>>, <<>>, <<>>, <<>> >>, dirs |-> {1, 2}],
      [children |-> << <<2, 3, 4>>, <<>>, <<5>>, <<>>, <<>> >>, dirs |-> {1, 2, 3}] }

NoPlan == [ok |-> TRUE, levels |-> <<>>, priority |-> Urgent,
           failure_policy |-> "StopOnLevelFailure", total_nodes |-> 0, total_levels |-> 0]
NoArgs == [target |-> 0, recursive |-> FALSE, force |-> FALSE]
NoResult == [total_generated |-> 0, total_failed |-> 0]

\* a workspace without node records
NoTree == [children |-> <<>>, dirs |-> {}]

\* no command has run on the workspace `tree` whose head index is `h`
PlanIdle(tree, h) ==
    /\ planTree = tree
    /\ planHeads = h
    /\ planArgs = NoArgs
    /\ plan = NoPlan
    /\ execPc = "idle"
    /\ execLevel = 0
    /\ inflight = {}
    /\ execResult = NoResult
    /\ cmdRet = "none"
    /\ commands = 0

\* a scanned workspace in which any set of nodes has a head already
PlanInit == \E tree \in PlanTrees, h \in SUBSET PlanNodes : PlanIdle(tree, h)

\* `for child in record.children { queue.push_back((child, depth + 1)) }`
PushChildren(bfs_queue, children, depth) ==
    bfs_queue \o [i \in 1..Len(children) |-> <<children[i], depth>>]

\* levels.entry(depth).or_default().push(node_id)
PushAtDepth(levels, depth, node_id) ==
    [d \in DOMAIN levels \cup {depth} |->
        IF d = depth
        THEN Append(IF depth \in DOMAIN levels THEN levels[depth] ELSE <<>>, node_id)
        ELSE levels[d]]

\* the while loop of collect_subtree_levels
RECURSIVE BfsLevels(_, _, _, _)
BfsLevels(children, bfs_queue, visited, levels) ==
    IF bfs_queue = <<>> THEN levels
    ELSE LET node_id == Head(bfs_queue)[1]
             depth == Head(bfs_queue)[2]
         IN  IF node_id \in visited
             THEN BfsLevels(children, Tail(bfs_queue), visited, levels)
             ELSE BfsLevels(children,
                            PushChildren(Tail(bfs_queue), children[node_id], depth + 1),
                            visited \cup {node_id},
                            PushAtDepth(levels, depth, node_id))

RECURSIVE SetToSeq(_)
SetToSeq(S) ==
    IF S = {} THEN <<>>
    ELSE LET x == CHOOSE y \in S : TRUE IN <<x>> \o SetToSeq(S \ {x})

\* the depths sorted with a.cmp(b): shallowest first
OrderedDepths_Ascending(levels) ==
    SortSeq(SetToSeq(DOMAIN levels), LAMBDA a, b : a < b)

\* ordered_depths.sort_by(|(a, _), (b, _)| b.cmp(a))
OrderedDepths(levels) ==
    SortSeq(SetToSeq(DOMAIN levels), LAMBDA a, b : a > b)

\* collect_subtree_levels
CollectSubtreeLevels(children, target_node_id) ==
    LET levels == BfsLevels(children, << <<target_node_id, 0>> >>, {}, <<>>)
        ordered_depths == OrderedDepths(levels)
    IN  [i \in 1..Len(ordered_depths) |-> levels[ordered_depths[i]]]

\* the while loop of find_missing_descendant_heads
RECURSIVE BfsMissing(_, _, _, _, _)
BfsMissing(children, h, bfs_queue, visited, missing) ==
    IF bfs_queue = <<>> THEN missing
    ELSE LET node_id == Head(bfs_queue)
         IN  IF node_id \in visited
             THEN BfsMissing(children, h, Tail(bfs_queue), visited, missing)
             ELSE BfsMissing(children, h, Tail(bfs_queue) \o children[node_id],
                             visited \cup {node_id},
                             IF node_id \notin h THEN Append(missing, node_id)
                             ELSE missing)

\* find_missing_descendant_heads that looks at the target's children only
FindMissingDescendantHeads_ChildrenOnly(children, h, target_node_id) ==
    SelectSeq(children[target_node_id], LAMBDA c : c \notin h)

\* find_missing_descendant_heads
FindMissingDescendantHeads(children, h, target_node_id) ==
    BfsMissing(children, h, children[target_node_id], {}, <<>>)

\* mutant: a node that has a head is planned again
LevelItems_NoHeadReuse(level, h, force) == level

\* the items of one level: nodes that have a head are skipped unless force
LevelItems(level, h, force) == SelectSeq(level, LAMBDA n : force \/ n \notin h)

\* the recursive branch of build_generation_plan: empty levels are dropped
PlanLevels(depth_levels, h, force) ==
    LET items == [i \in 1..Len(depth_levels) |-> LevelItems(depth_levels[i], h, force)]
        kept == SelectSeq([i \in 1..Len(items) |-> i], LAMBDA i : items[i] # <<>>)
    IN  [k \in 1..Len(kept) |-> items[kept[k]]]

RECURSIVE CountItems(_, _)
CountItems(levels, i) ==
    IF i > Len(levels) THEN 0 ELSE Len(levels[i]) + CountItems(levels, i + 1)

\* GenerationPlan { levels, priority: Urgent, failure_policy: StopOnLevelFailure, .. }
GenerationPlan(levels) ==
    [ok |-> TRUE, levels |-> levels, priority |-> Urgent,
     failure_policy |-> "StopOnLevelFailure", total_nodes |-> CountItems(levels, 1),
     total_levels |-> Len(levels)]

\* build_generation_plan: ok = FALSE is Err(GenerationFailed("Directory
\* descendants are missing required heads; ..."))
BuildGenerationPlan(tree, h, target_node_id, is_directory_target, recursive, force) ==
    IF /\ ~recursive /\ is_directory_target /\ ~force
       /\ FindMissingDescendantHeads(tree.children, h, target_node_id) # <<>>
    THEN [NoPlan EXCEPT !.ok = FALSE]
    ELSE IF recursive
    THEN GenerationPlan(PlanLevels(CollectSubtreeLevels(tree.children, target_node_id),
                                   h, force))
    ELSE IF ~force /\ target_node_id \in h
    THEN GenerationPlan(<<>>)
    ELSE GenerationPlan(<< <<target_node_id>> >>)

\* the command's answer whatever the executor reports
CommandResult_IgnoresFailures(result) == "Ok"

\* handle_context_generate, after the executor: total_failed > 0 is
\* Err(GenerationFailed("Generation completed with failures. ..."))
CommandResult(result) ==
    IF result.total_failed > 0 THEN "GenerationFailed" ELSE "Ok"

\* handle_context_generate up to the executor: the plan is built; the command
\* returns at once on a planning error or on an empty plan
HandleContextGenerate(target, no_recursive, force) ==
    /\ execPc \in {"idle", "returned"}
    /\ commands < MaxCommands
    /\ commands' = commands + 1
    /\ LET is_directory_target == target \in planTree.dirs
           recursive == is_directory_target /\ ~no_recursive
           built == BuildGenerationPlan(planTree, planHeads, target, is_directory_target,
                                        recursive, force)
       IN  /\ planArgs' = [target |-> target, recursive |-> recursive, force |-> force]
           /\ plan' = built
           /\ IF ~built.ok
              THEN /\ cmdRet' = "GenerationFailed"
                   /\ execPc' = "returned"
              ELSE IF built.total_nodes = 0
              THEN /\ cmdRet' = "Ok"
                   /\ execPc' = "returned"
              ELSE /\ cmdRet' = "none"
                   /\ execPc' = "executing"
    /\ execLevel' = 0
    /\ inflight' = {}
    /\ execResult' = NoResult
    /\ UNCHANGED <<planTree, planHeads>>

\* the executor submits the next level as one batch at the plan's priority
ExecuteSubmit ==
    /\ execPc = "executing"
    /\ inflight = {}
    /\ execResult.total_failed = 0
    /\ execLevel < Len(plan.levels)
    /\ execLevel' = execLevel + 1
    /\ inflight' = {[node_id |-> plan.levels[execLevel + 1][i], priority |-> plan.priority] :
                        i \in 1..Len(plan.levels[execLevel + 1])}
    /\ UNCHANGED <<planTree, planHeads, planArgs, plan, execPc, execResult, cmdRet,
                   commands>>

\* one submitted item resolves: its frame becomes the node's head, or the
\* request failed for good
ExecuteResolve(item, generated) ==
    /\ execPc = "executing"
    /\ item \in inflight
    /\ inflight' = inflight \ {item}
    /\ IF generated
       THEN /\ planHeads' = planHeads \cup {item.node_id}
            /\ execResult' = [execResult EXCEPT !.total_generated = @ + 1]
       ELSE /\ planHeads' = planHeads
            /\ execResult' = [execResult EXCEPT !.total_failed = @ + 1]
    /\ UNCHANGED <<planTree, planArgs, plan, execPc, execLevel, cmdRet, commands>>

\* the executor returns after the last level, or after a level with a
\* failure (StopOnLevelFailure), and the command maps its result
ExecuteReturn ==
    /\ execPc = "executing"
    /\ inflight = {}
    /\ execLevel >= 1
    /\ execResult.total_failed > 0 \/ execLevel = Len(plan.levels)
    /\ cmdRet' = CommandResult(execResult)
    /\ execPc' = "returned"
    /\ UNCHANGED <<planTree, planHeads, planArgs, plan, execLevel, inflight, execResult,
                   commands>>

PlanNext ==
    \/ \E target \in PlanNodes, no_recursive, force \in BOOLEAN :
           HandleContextGenerate(target, no_recursive, force) /\ UNCHANGED notPlan
    \/ ExecuteSubmit /\ UNCHANGED notPlan
    \/ \E item \in inflight, generated \in BOOLEAN :
           ExecuteResolve(item, generated) /\ UNCHANGED notPlan
    \/ ExecuteReturn /\ UNCHANGED notPlan

FrameInit ==
    /\ newFrame = None
    /\ newFrameArgs = None

PathsInit == resolved = {}

AuthAgentIds == {"agent-a", "agent-b"}
NoCmd == [node_given |-> FALSE, agent |-> None, provider |-> None]
AuthInit ==
    /\ agents = [a \in AuthAgentIds |-> None]
    /\ lastCmd = NoCmd

WriteNodes == 1..3
WriteThreads == 1..2
\* node 1 is a directory, 2 and 3 are its children
WriteChildren == << <<2, 3>>, <<>>, <<>> >>
WriteInit ==
    /\ nodeWriter = [n \in WriteNodes |-> 0]
    /\ nodeReaders = [n \in WriteNodes |-> {}]
    /\ indexOwner = 0
    /\ wpc = [t \in WriteThreads |-> "idle"]
    /\ wtarget = [t \in WriteThreads |-> 0]
    /\ wrec = [t \in WriteThreads |-> FALSE]
    /\ wtodo = [t \in WriteThreads |-> <<>>]
    /\ wframe = [t \in WriteThreads |-> 0]
    /\ storedFrames = {}
    /\ indexedFrames = {}
    /\ nodeHead = [n \in WriteNodes |-> 0]
    /\ nextFrame = 1

LimitWorkers == 1..3
LimitAgents == {"agent-1", "agent-2"}
LimitInit ==
    /\ agentLimiters = [a \in {} |-> 0]
    /\ lpc = [w \in LimitWorkers |-> "idle"]
    /\ lagent = [w \in LimitWorkers |-> ""]
    /\ lwake = [w \in LimitWorkers |-> 0]
    /\ lclock = 0
    /\ starts = [a \in LimitAgents |-> <<>>]

\* most worker tasks ever spawned
MaxTasks == 4
Tasks == 1..MaxTasks
\* the tasks that call start and stop on the shared queue
Callers == 1..2
LifeInit ==
    /\ runFlag = FALSE
    /\ taskPc = [t \in Tasks |-> "unspawned"]
    /\ workerHandles = {}
    /\ callPc = [c \in Callers |-> "idle"]
    /\ taken = [c \in Callers |-> {}]
    /\ spawned = 0

\* the paths the watcher reports, as sequences of path pieces
WatchPaths == {<<"src", "/", "a.rs">>, <<"src", "/", ".DS_Store">>, <<".git", "/", "HEAD">>}
WatchInit ==
    /\ batcherPending = {}
    /\ lastEventTime = [p \in WatchPaths |-> -1]
    /\ daemonPending = <<>>
    /\ processedEvents = {}
    /\ watchClock = 0
    /\ lastBatchTime = 0
    /\ received = 0

\* the NodeIDs a workspace has had; 1 is the root the tree builder computes
StatusNodes == 1..3
\* no status has been built
NoStatus == [scanned |-> FALSE, total_nodes |-> 0, context_coverage |-> {}]
StatusInit ==
    /\ nodeRecords = [n \in StatusNodes |-> "absent"]
    /\ statusHeads = {}
    /\ lastStatus = NoStatus

Init ==
    /\ QueueInit
    /\ popped = <<>>
    /\ StoreInit
    /\ LocksInit
    /\ stopPc = "idle"
    /\ waitRet = "none"
    /\ waiters = [id \in 1..MaxReq |-> "none"]
    /\ PlanIdle(NoTree, {})
    /\ FrameInit
    /\ PathsInit
    /\ AuthInit
    /\ WriteInit
    /\ LimitInit
    /\ LifeInit
    /\ WatchInit
    /\ StatusInit

\* the same with a scanned workspace
InitPlan ==
    /\ QueueInit
    /\ popped = <<>>
    /\ StoreInit
    /\ LocksInit
    /\ stopPc = "idle"
    /\ waitRet = "none"
    /\ waiters = [id \in 1..MaxReq |-> "none"]
    /\ PlanInit
    /\ FrameInit
    /\ PathsInit
    /\ AuthInit
    /\ WriteInit
    /\ LimitInit
    /\ LifeInit
    /\ WatchInit
    /\ StatusInit

\* a scanned workspace without heads, and an empty agent registry
InitAuth ==
    /\ QueueInit
    /\ popped = <<>>
    /\ StoreInit
    /\ LocksInit
    /\ stopPc = "idle"
    /\ waitRet = "none"
    /\ waiters = [id \in 1..MaxReq |-> "none"]
    /\ \E tree \in PlanTrees : PlanIdle(tree, {})
    /\ FrameInit
    /\ PathsInit
    /\ AuthInit
    /\ WriteInit
    /\ LimitInit
    /\ LifeInit
    /\ WatchInit
    /\ StatusInit

SpecQueue == Init /\ [][QueueNext]_vars

SpecHeap == Init /\ [][HeapNext]_vars

SpecDrain == Init /\ [][DrainNext]_vars

SpecPlan == InitPlan /\ [][PlanNext]_vars

SpecWait == Init /\ [][WaitNext]_vars

SpecRegen == Init /\ [][RegenNext]_vars

SpecBasis == Init /\ [][BasisNext]_vars

SpecLocks == Init /\ [][LocksNext]_vars

(***************************************************************************)
(* Claims about the generation queue.                                      *)
(***************************************************************************)

\* C1: at every moment the number of requests held in the queue is at most
\* max_queue_size (enqueue, enqueue_batch, worker pops and retry re-enqueue
\* interleaved in any way).
C1_QueueNeverExceedsMax == Cardinality(queue) <= MaxQueueSize

\* the requests popped so far, in the heap specification
PoppedRequests == {popped[k][1] : k \in 1..Len(popped)}
PoppedWithId(i) == CHOOSE r \in PoppedRequests : r.id = i

\* the scenario: Normal(t=0), Low(t=1), Urgent(t=2), Normal(t=3) were pushed
\* in this order and then all four were popped
ScenarioRan ==
    /\ Len(popped) = 4
    /\ \A k \in 1..4 : popped[k][2] = 4 - k
    /\ {r.id : r \in PoppedRequests} = 1..4
    /\ PoppedWithId(1).priority = Normal /\ PoppedWithId(1).created_at = 0
    /\ PoppedWithId(2).priority = Low /\ PoppedWithId(2).created_at = 1
    /\ PoppedWithId(3).priority = Urgent /\ PoppedWithId(3).created_at = 2
    /\ PoppedWithId(4).priority = Normal /\ PoppedWithId(4).created_at = 3

\* a pop removes a request of the highest priority present and, among those,
\* one with the earliest created_at
PopTakesGreatest ==
    \A r \in queue \ queue' : \A o \in queue :
        /\ o.priority <= r.priority
        /\ o.priority = r.priority => r.created_at <= o.created_at

\* C2: every pop removes a request of the highest priority present and, among
\* requests of that priority, the one with the earliest created_at; the
\* scenario Normal(0), Low(1), Urgent(2), Normal(3) is popped in the order
\* Urgent, Normal(0), Normal(3), Low.
C2_PopOrder ==
    /\ [][PopTakesGreatest]_vars
    /\ [](ScenarioRan => <<popped[1][1].id, popped[2][1].id, popped[3][1].id,
                           popped[4][1].id>> = <<3, 1, 4, 2>>)

C2_Witness == ScenarioRan

\* the error kinds the retry policy names as retryable
RetryableKinds == {"ProviderRateLimit", "ProviderRequestFailed", "ProviderError"}

\* a worker leaves the stats block with a retryable failure: one of the first
\* max_retry_attempts failures is retried with retry_count + 1 and nothing
\* else of the request changed; failure number max_retry_attempts + 1 is
\* final, counts once in stats.failed and the request is gone
RetryStep(w) ==
    (pc[w] = "result" /\ pc'[w] # "result" /\ wres[w] \in RetryableKinds) =>
        IF attempts[wreq[w].id] <= MaxRetryAttempts
        THEN /\ pc'[w] = "retry_sleep"
             /\ wreq'[w] = [wreq[w] EXCEPT !.retry_count = @ + 1]
             /\ wreq'[w].priority = wreq[w].priority
             /\ stats'.failed = stats.failed
        ELSE /\ attempts[wreq[w].id] = MaxRetryAttempts + 1
             /\ stats'.failed = stats.failed + 1
             /\ wreq'[w] = NoReq
             /\ \A r \in queue' : r.id # wreq[w].id

\* the retry pushes exactly the held request
RequeueStep(w) ==
    (pc[w] = "retry_sleep" /\ pc'[w] # "retry_sleep") => queue' = queue \cup {wreq[w]}

\* a request enters the queue only as a new one or through the retry push
OnlyNewOrRetried ==
    \A r \in queue' \ queue :
        \/ r.id > nextId
        \/ \E w \in Workers : pc[w] = "retry_sleep" /\ wreq[w] = r

\* C3: a request whose attempts all fail with a retryable error is attempted
\* exactly max_retry_attempts + 1 times; each of the first max_retry_attempts
\* failures re-enqueues it with retry_count + 1 and the same priority; the
\* last failure adds exactly 1 to stats.failed and it is never enqueued again.
C3_RetryExhaustion ==
    /\ [](\A i \in 1..MaxReq : attempts[i] <= MaxRetryAttempts + 1)
    /\ [][\A w \in Workers : RetryStep(w) /\ RequeueStep(w)]_vars
    /\ [][OnlyNewOrRetried]_vars

C3_Witness ==
    \E w \in Workers :
        /\ pc[w] = "result"
        /\ wres[w] = "ProviderRequestFailed"
        /\ attempts[wreq[w].id] = MaxRetryAttempts + 1
        /\ wreq[w].retry_count = MaxRetryAttempts

\* C9: enqueue_batch is all-or-nothing: when queue length + batch size
\* exceeds max_queue_size it fails and queue and stats are unchanged;
\* otherwise the whole batch is admitted in the same step and stats.pending
\* grows by the batch size.
C9_BatchAllOrNothing ==
    [][\A b \in Batches :
         EnqueueBatch(b) =>
            IF Cardinality(queue) + Len(b) > MaxQueueSize
            THEN /\ ret' = <<"enqueue_batch", "ConfigError">>
                 /\ UNCHANGED <<queue, stats>>
            ELSE /\ ret' = <<"enqueue_batch", "Ok">>
                 /\ queue \subseteq queue'
                 /\ Cardinality(queue' \ queue) = Len(b)
                 /\ stats' = [stats EXCEPT !.pending = @ + Len(b)]]_vars

C9_Witness ==
    /\ ret = <<"enqueue_batch", "ConfigError">>
    /\ Cardinality(queue) > 0
    /\ Cardinality(queue) < MaxQueueSize
    /\ stats.pending = Cardinality(queue)

\* C10: enqueue on a queue whose length equals max_queue_size returns an
\* error and changes neither the queue nor any QueueStats counter, and
\* notifies no worker.
C10_EnqueueFullNoMutation ==
    [][\A a \in Agents, p \in QueuePriorities, t \in Stamps :
         (Cardinality(queue) = MaxQueueSize /\ Enqueue(a, p, t)) =>
            /\ ret'[2] # "Ok"
            /\ UNCHANGED <<queue, stats, notifyPermit, pc, nextId>>]_vars

C10_Witness ==
    /\ ret = <<"enqueue", "ConfigError">>
    /\ Cardinality(queue) = MaxQueueSize

(***************************************************************************)
(* Claims about regeneration, the head index and the basis index.          *)
(***************************************************************************)
\* C4: from any reachable state, regenerate_node run twice in a row with the
\* same arguments (recursive or not) regenerates nothing the second time
\* (regenerated_count = 0), and the second run leaves frame storage, the head
\* index and the basis index as the first run left them.
C4_RegenerateIdempotent ==
    \A n \in Nodes, rec \in BOOLEAN, a \in AgentIds, order \in TypeOrders :
        LET first == RegenerateNode(NewRun(frames, heads, basis_index, 0), n, rec, a, order)
            second == RegenerateNode(NewRun(first.frames, first.heads, first.basis_index, 0),
                                     n, rec, a, order)
        IN  /\ Len(second.frame_ids) = 0
            /\ second.frames = first.frames
            /\ second.heads = first.heads
            /\ second.basis_index = first.basis_index

\* every head FrameID resolves in frame storage to a frame of the key's type
\* (heads is a map, so a key has at most one head)
HeadResolves ==
    \A k \in DOMAIN heads :
        /\ k \in Nodes \X FrameTypes
        /\ \E f \in frames : f.frame_id = heads[k] /\ f.frame_type = k[2]

\* after a regenerate_node call that failed in frame_storage.store, the head
\* of the key it was regenerating is the head the call found there
FailedStoreKeepsHead ==
    report.result = "StorageError"
        => GetHead(heads, report.failed[1][1], report.failed[1][2]) = report.head_before

\* C5: after any sequence of frame writes and regenerations every
\* (NodeID, frame_type) key has at most one head and that head resolves in
\* frame storage to a frame of the key's frame_type: the frame is stored
\* before the head points at it, and a failed store leaves the head unchanged.
C5_HeadResolvesToStoredFrame == HeadResolves /\ FailedStoreKeepsHead

\* a regenerate_node call has moved one head to a frame it stored and then
\* failed in the store of the next frame
C5_Witness ==
    /\ report.result = "StorageError"
    /\ report.regenerated_count >= 1

\* C6: after any sequence of add_frame and remove_frame calls the forward and
\* the reverse map of the BasisIndex agree: f is listed under h in the forward
\* map iff the reverse map sends f to h, and no hash maps to an empty list.
C6_BasisIndexConsistent ==
    LET index == basis_index.index
        reverse == basis_index.reverse
    IN  /\ \A h \in DOMAIN index : \A i \in 1..Len(index[h]) :
               GetBasisForFrame(basis_index, index[h][i]) = Some(h)
        /\ \A f \in DOMAIN reverse :
               /\ reverse[f] \in DOMAIN index
               /\ \E i \in 1..Len(index[reverse[f]]) : index[reverse[f]][i] = f
        /\ \A h \in DOMAIN index : index[h] # <<>>

(***************************************************************************)
(* Claims about the node lock manager.                                     *)
(***************************************************************************)
WriteGuards(n) ==
    {t \in Threads : tnode[t] = n /\ tmode[t] = "write" /\ tpc[t] \in {"load", "store", "drop"}}
ReadGuards(n) ==
    {t \in Threads : tnode[t] = n /\ tmode[t] = "read" /\ tpc[t] = "reading"}
\* the threads whose read-modify-write of the node's counter is complete
Written(n) ==
    {t \in Threads : tnode[t] = n /\ tmode[t] = "write" /\ tpc[t] \in {"drop", "done"}}

\* C7: on the lock of one NodeID a held write guard excludes every other
\* write guard and every read guard (read guards may be held together), so
\* the read-modify-writes threads make under the write guard lose no update:
\* the counter equals the number of completed read-modify-writes.
C7_WriteGuardExcludes ==
    \A n \in LockNodes :
        /\ Cardinality(WriteGuards(n)) <= 1
        /\ WriteGuards(n) # {} => ReadGuards(n) = {}
        /\ counter[n] = Cardinality(Written(n))

\* two threads have completed their read-modify-write on a node, and two
\* read guards are held together on that node's lock
C7_Witness ==
    \E n \in LockNodes :
        /\ counter[n] >= 2
        /\ Cardinality(ReadGuards(n)) >= 2

HasHandle(t) == thandle[t] # 0
SameLockIffSameNode ==
    \A t1, t2 \in Threads :
        (HasHandle(t1) /\ HasHandle(t2))
            => ((thandle[t1] = thandle[t2]) <=> (tnode[t1] = tnode[t2]))
EntriesStable ==
    \A n \in DOMAIN locks : n \in DOMAIN locks' /\ locks'[n] = locks[n]

AllAcceptedTerminal == stats.completed + stats.failed = nextId

\* C11: wait_for_completion returns Ok only in a state where every accepted
\* request is completed or permanently failed: none queued, none being
\* processed, none waiting out a retry delay.
C11_WaitOkOnlyWhenAllDone ==
    [][(waitRet # "Ok" /\ waitRet' = "Ok") => AllAcceptedTerminal]_vars

\* the error kinds is_retryable_error names as terminal
TerminalKinds == {"ConfigError", "ProviderNotConfigured"}

\* a worker leaves the stats block with a terminal failure: the request is
\* dropped whatever its retry_count, stats.failed grows by exactly 1 and the
\* request is not in the queue
TerminalStep(w) ==
    (pc[w] = "result" /\ pc'[w] # "result" /\ wres[w] \in TerminalKinds) =>
        /\ pc'[w] = "top"
        /\ wreq'[w] = NoReq
        /\ stats'.failed = stats.failed + 1
        /\ queue' = queue
        /\ \A r \in queue' : r.id # wreq[w].id
        /\ wreq[w].retry_count = 0 => attempts[wreq[w].id] = 1

\* a worker leaves the stats block with a retryable failure: it goes on to
\* the retry push exactly when retry_count < max_retry_attempts
RetryWhileBelowMax(w) ==
    (pc[w] = "result" /\ pc'[w] # "result" /\ wres[w] \in RetryableKinds) =>
        (pc'[w] = "retry_sleep" <=> wreq[w].retry_count < MaxRetryAttempts)

\* C12: a failure with ConfigError or ProviderNotConfigured is never
\* re-enqueued, whatever the retry_count: the request is attempted once and
\* stats.failed grows by exactly 1; a failure with ProviderRateLimit,
\* ProviderRequestFailed or ProviderError is retried as long as
\* retry_count < max_retry_attempts.
C12_TerminalErrorsNotRetried ==
    [][\A w \in Workers : TerminalStep(w) /\ RetryWhileBelowMax(w)]_vars

C12_Witness ==
    \E w \in Workers :
        /\ pc[w] = "result"
        /\ wres[w] = "ConfigError"
        /\ wreq[w].retry_count >= 1
        /\ wreq[w].retry_count < MaxRetryAttempts

\* stop has returned and the queue was not started again
Stopped == stopPc = "returned" /\ ~running

\* a stop call on a stopped queue returns without touching the queue
StopOnStopped ==
    (~running /\ stopPc = "idle" /\ stopPc' = "returned") => UNCHANGED <<qvars, popped>>

Store == [frames |-> frames, heads |-> heads, basis_index |-> basis_index]

\* the head frame of (node_id, frame_type) in the current state
HeadFrame(node_id, frame_type) ==
    StorageGet(frames, GetHead(heads, node_id, frame_type)[1])[1]

\* directory D, whose only child is C, has for frame_type one head S1, a
\* frame synthesized from a frame F1 of C, and C's head is another frame F2
ChildHeadMoved(D, frame_type) ==
    LET C == Children[D][1]
    IN  /\ Len(Children[D]) = 1
        /\ HasChildFrame(Store, C, frame_type)
        /\ \A t \in FrameTypes : GetHead(heads, D, t) # None <=> t = frame_type
        /\ StorageGet(frames, GetHead(heads, D, frame_type)[1]) # None
        /\ LET S1 == HeadFrame(D, frame_type)
               F2 == GetHead(heads, C, frame_type)[1]
           IN  \E F1 \in {f.frame_id : f \in frames} \ {F2} :
                   /\ S1.basis = FrameBasis(F1)
                   /\ S1.metadata.basis_hash =
                          Some(HexOf(SynthesisBasisHash(D, <<F1>>, frame_type, Concatenation)))

\* what regenerate_node(D) leaves behind in that case
NewSynthesizedHead(D, frame_type, run) ==
    LET S1 == GetHead(heads, D, frame_type)[1]
        F2 == GetHead(heads, Children[D][1], frame_type)[1]
        S2 == GetHead(heads', D, frame_type)[1]
    IN  /\ S2 # S1
        /\ StorageGet(frames, S2) = None
        /\ StorageGet(frames', S2) # None
        /\ StorageGet(frames', S2)[1].basis = FrameBasis(F2)
        /\ StorageGet(frames', S2)[1].content = StorageGet(frames, F2)[1].content
        /\ report'.result = "Ok"
        /\ report'.regenerated_count = 1
        /\ run.frame_ids = <<S2>>

\* C13: directory D with exactly one child C has a synthesized head S1
\* derived from C's head F1; after a new frame F2 became C's head,
\* regenerate_node(D) stores a new synthesized frame S2 # S1, makes it the
\* head of D and reports regenerated_count = 1 with frame_ids = [S2].
C13_ChildChangeResynthesizes ==
    [][\A D \in Directories, t \in FrameTypes, rec \in BOOLEAN, a \in AgentIds,
         order \in TypeOrders :
           (ChildHeadMoved(D, t) /\ Regenerate(D, rec, a, 0, order)) =>
               NewSynthesizedHead(D, t,
                   RegenerateNode(NewRun(frames, heads, basis_index, 0), D, rec, a,
                                  order))]_vars

C13_Witness ==
    /\ report.result = "Ok"
    /\ report.regenerated_count = 1
    /\ \E D \in Directories, t \in FrameTypes :
           /\ Len(Children[D]) = 1
           /\ HasChildFrame(Store, Children[D][1], t)
           /\ GetHead(heads, D, t) # None
           /\ HeadFrame(D, t).metadata.synthesis_policy = Some(DebugFormat(Concatenation))
           /\ HeadFrame(D, t).metadata.child_frame_count = Some(1)
           /\ HeadFrame(D, t).basis = FrameBasis(GetHead(heads, Children[D][1], t)[1])
           /\ \E S1 \in frames :
                  /\ S1.frame_id # HeadFrame(D, t).frame_id
                  /\ S1.metadata.child_frame_count = Some(1)
                  /\ S1.basis # HeadFrame(D, t).basis

\* a step of regenerate_node keeps every stored frame as it was and every
\* entry of both maps of the basis index
NothingRemoved ==
    report' # NoReport =>
        /\ \A f \in frames : StorageGet(frames', f.frame_id) = Some(f)
        /\ \A h \in DOMAIN basis_index.index :
               /\ h \in DOMAIN basis_index'.index
               /\ \A i \in 1..Len(basis_index.index[h]) :
                      \E j \in 1..Len(basis_index'.index[h]) :
                          basis_index'.index[h][j] = basis_index.index[h][i]
        /\ \A id \in DOMAIN basis_index.reverse :
               /\ id \in DOMAIN basis_index'.reverse
               /\ basis_index'.reverse[id] = basis_index.reverse[id]

\* C18: regenerate_node never deletes or overwrites an existing frame: every
\* FrameID retrievable before a run is retrievable with identical content
\* after it, the replaced head included, and no basis index entry is removed.
C18_RegenerateKeepsFrames == [][NothingRemoved]_vars

C18_Witness ==
    /\ report.result = "Ok"
    /\ report.regenerated_count >= 1
    /\ \E D \in Directories, t \in FrameTypes :
           /\ GetHead(heads, D, t) # None
           /\ HeadFrame(D, t).metadata.synthesis_policy = Some(DebugFormat(Concatenation))
           /\ \E old \in frames :
                  /\ old.frame_id # HeadFrame(D, t).frame_id
                  /\ old.frame_type = t
                  /\ old.metadata.basis_hash # None
                  /\ GetBasisForFrame(basis_index, old.frame_id) =
                         GetBasisForFrame(basis_index, HeadFrame(D, t).frame_id)

\* the orders in which a node record can list the same children
ChildOrders(children) ==
    {p \in [1..Len(children) -> {children[i] : i \in 1..Len(children)}] :
        \A i, j \in 1..Len(children) : i # j => p[i] # p[j]}

\* the frame regeneration builds for (D, frame_type) from a node record that
\* lists `children`
RegeneratedFrom(D, frame_type, agent_id, children) ==
    ResynthesizedFrame(D, frame_type, agent_id, HeadFrame(D, frame_type),
                       ChildFramesOf(children, frame_type, Store))

\* C19: synthesis is deterministic: for the same parent, frame type, policy,
\* agent and child head frames, regeneration produces the same content, the
\* same synthesis basis hash and the same FrameID, in whatever order the
\* parent's record lists its children (and in whatever order the head frames
\* of the parent are visited).
C19_SynthesisDeterministic ==
    \A D \in Directories, t \in FrameTypes, a \in AgentIds :
        (GetHead(heads, D, t) # None /\ StorageGet(frames, GetHead(heads, D, t)[1]) # None) =>
            /\ \A p \in ChildOrders(Children[D]) :
                   /\ ChildFramesOf(p, t, Store) = ChildFrames(D, t, Store)
                   /\ RegeneratedFrom(D, t, a, p) = RegeneratedFrom(D, t, a, Children[D])
                   /\ SynthesisBasisHash(D, ChildFrameIds(ChildFramesOf(p, t, Store)), t,
                                         Concatenation) =
                      SynthesisBasisHash(D, ChildFrameIds(ChildFrames(D, t, Store)), t,
                                         Concatenation)
            /\ \A o1, o2 \in TypeOrders :
                   LET r1 == RegenerateNode(NewRun(frames, heads, basis_index, 0), D, FALSE,
                                            a, o1)
                       r2 == RegenerateNode(NewRun(frames, heads, basis_index, 0), D, FALSE,
                                            a, o2)
                   IN  r1.frames = r2.frames /\ r1.heads = r2.heads

C19_Witness ==
    /\ report.result = "Ok"
    /\ report.regenerated_count >= 1
    /\ \E D \in Directories, t \in FrameTypes :
           /\ Len(Children[D]) = 2
           /\ Children[D][1] > Children[D][2]
           /\ GetHead(heads, D, t) # None
           /\ HeadFrame(D, t).metadata.synthesis_policy = Some(DebugFormat(Concatenation))
           /\ HeadFrame(D, t).metadata.child_frame_count = Some(2)
           /\ HeadFrame(D, t) = RegeneratedFrom(D, t, "agent-1", Children[D])

\* the nodes reachable from n: n and its descendants
RECURSIVE Subtree(_, _)
Subtree(children, n) ==
    {n} \cup UNION {Subtree(children, children[n][i]) : i \in 1..Len(children[n])}

\* the places (level, position) at which n stands in a plan
PlacesOf(levels, n) ==
    {<<i, j>> \in (1..Len(levels)) \X PlanNodes : j <= Len(levels[i]) /\ levels[i][j] = n}

LevelOf(levels, n) == (CHOOSE p \in PlacesOf(levels, n) : TRUE)[1]

\* levels hold each node reachable from target once, every child in an
\* earlier level than its parent, the target alone in the last level
DeepestFirst(children, target, levels) ==
    /\ \A n \in PlanNodes :
           Cardinality(PlacesOf(levels, n)) = IF n \in Subtree(children, target) THEN 1 ELSE 0
    /\ \A n \in Subtree(children, target) : \A i \in 1..Len(children[n]) :
           LevelOf(levels, children[n][i]) < LevelOf(levels, n)
    /\ levels[Len(levels)] = <<target>>

\* the plan keeps the nodes without a head (all nodes under force), in the
\* order of the levels
PlanFollowsLevels ==
    (planArgs.recursive /\ plan.ok) =>
        LET children == planTree.children
            planned == {n \in Subtree(children, planArgs.target) :
                            planArgs.force \/ PlacesOf(plan.levels, n) # {}}
        IN  /\ \A n \in planned : Cardinality(PlacesOf(plan.levels, n)) = 1
            /\ \A n \in planned : \A i \in 1..Len(children[n]) :
                   children[n][i] \in planned =>
                       LevelOf(plan.levels, children[n][i]) < LevelOf(plan.levels, n)

\* C14: in a recursive generation plan every node reachable from the target
\* is in exactly one level, levels are deepest first (each node strictly
\* before each of its parents, the target in the last level), so when a
\* node is generated every one of its children already has a head.
C14_DeepestFirstPlan ==
    /\ \A target \in PlanNodes :
           DeepestFirst(planTree.children, target,
                        CollectSubtreeLevels(planTree.children, target))
    /\ PlanFollowsLevels
    /\ planArgs.recursive =>
           \A item \in inflight : \A i \in 1..Len(planTree.children[item.node_id]) :
               planTree.children[item.node_id][i] \in planHeads

C14_Witness ==
    /\ planArgs.recursive
    /\ Len(plan.levels) >= 3
    /\ execLevel = Len(plan.levels)
    /\ inflight = {[node_id |-> planArgs.target, priority |-> Urgent]}
    /\ execResult.total_generated >= 2
    /\ Len(planTree.children[planArgs.target]) = 2
    /\ planTree.children[planArgs.target][1] > planTree.children[planArgs.target][2]

\* number of items in the first k levels of a plan
RECURSIVE ItemsUpTo(_, _)
ItemsUpTo(levels, k) == IF k = 0 THEN 0 ELSE Len(levels[k]) + ItemsUpTo(levels, k - 1)

\* a level is submitted whole and at Urgent, only when the one before it has
\* resolved without a failure
SubmitInOrder ==
    execLevel' = execLevel + 1 =>
        /\ inflight = {}
        /\ execResult.total_failed = 0
        /\ plan' = plan
        /\ inflight' = {[node_id |-> plan.levels[execLevel'][i], priority |-> Urgent] :
                            i \in 1..Len(plan.levels[execLevel'])}

\* after a permanent failure the run submits nothing more
StopOnLevelFailure ==
    (execPc = "executing" /\ execResult.total_failed > 0) =>
        /\ execLevel' = execLevel
        /\ inflight' \subseteq inflight

\* the executor's result counts the items of the levels it submitted, and the
\* command fails exactly when one of them failed
ReturnReportsCounts ==
    (execPc = "executing" /\ execPc' = "returned") =>
        /\ inflight = {}
        /\ execResult.total_generated + execResult.total_failed =
               ItemsUpTo(plan.levels, execLevel)
        /\ execResult.total_failed = 0 => execLevel = Len(plan.levels)
        /\ cmdRet' = IF execResult.total_failed > 0 THEN "GenerationFailed" ELSE "Ok"

\* C15: the executor submits the levels strictly in plan order at priority
\* Urgent, level k+1 only after every item of level k has resolved; after a
\* permanent failure in level k no later level is submitted, the result
\* reports the generated and failed counts and the command returns
\* GenerationFailed.
C15_LevelsInOrderStopOnFailure ==
    [][SubmitInOrder /\ StopOnLevelFailure /\ ReturnReportsCounts]_vars

C15_Witness ==
    /\ execPc = "returned"
    /\ plan.ok
    /\ cmdRet = "GenerationFailed"
    /\ execResult.total_generated >= 1
    /\ execResult.total_failed >= 1
    /\ execLevel >= 2
    /\ execLevel < Len(plan.levels)

\* the descendants of target that have no head
MissingDescendants(target) ==
    (Subtree(planTree.children, target) \ {target}) \ planHeads

\* what a non-recursive generate on a directory does at planning time
DescendantCheck(target, force) ==
    IF force
    THEN /\ plan'.ok
         /\ plan'.levels = << <<target>> >>
         /\ execPc' = "executing"
    ELSE IF MissingDescendants(target) # {}
    THEN /\ ~plan'.ok
         /\ plan'.levels = <<>>
         /\ cmdRet' = "GenerationFailed"
         /\ execPc' = "returned"
         /\ inflight' = {}
         /\ planHeads' = planHeads
    ELSE plan'.ok

\* C20: a non-recursive generate on a Directory without force fails with the
\* descendants-missing error before anything is enqueued or written if any
\* descendant of the target lacks a head; with force the check is skipped and
\* the target is planned.
C20_DescendantCheck ==
    /\ [][\A target \in planTree.dirs, force \in BOOLEAN :
            HandleContextGenerate(target, TRUE, force) => DescendantCheck(target, force)]_vars
    /\ [](~plan.ok => inflight = {} /\ execLevel = 0 /\ execResult = NoResult)

C20_Witness ==
    /\ ~plan.ok
    /\ cmdRet = "GenerationFailed"
    /\ ~planArgs.force
    /\ \A i \in 1..Len(planTree.children[planArgs.target]) :
           planTree.children[planArgs.target][i] \in planHeads
    /\ MissingDescendants(planArgs.target) # {}

\* a worker holds request id, or it is in the queue
InQueueOrHeld(id) ==
    \/ \E r \in queue : r.id = id
    \/ \E w \in Workers : wreq[w].id = id

\* a waiter is answered by the worker that ends its own request, with that
\* request's result, and the answer is never replaced
AnsweredByOwnRequest(id) ==
    /\ (waiters[id] = "waiting" /\ waiters'[id] \notin {"waiting", "Timeout"}) =>
           \E w \in Workers :
               /\ pc[w] = "result" /\ pc'[w] = "top"
               /\ wreq[w].id = id
               /\ waiters'[id] = wres[w]
               /\ wreq'[w] = NoReq
               /\ ~InQueueOrHeld(id)'
               /\ IF wres[w] = "Ok"
                  THEN stats'.completed = stats.completed + 1
                  ELSE stats'.failed = stats.failed + 1
    /\ waiters[id] \notin {"none", "waiting"} => waiters'[id] = waiters[id]

\* a deadline that passes takes nothing from the queue and stops no worker
TimeoutLeavesRequest(id) ==
    (waiters[id] = "waiting" /\ waiters'[id] = "Timeout") =>
        /\ UNCHANGED <<qvars, popped>>
        /\ InQueueOrHeld(id)'

\* C16: enqueue_and_wait returns the outcome of the request it enqueued (its
\* frame or its terminal error); if the deadline passes first it returns
\* Timeout and the request is neither removed from the queue nor cancelled,
\* so it can still be processed afterwards.
C16_WaiterGetsOwnOutcome ==
    /\ [][\A id \in 1..MaxReq : AnsweredByOwnRequest(id) /\ TimeoutLeavesRequest(id)]_vars
    /\ [](\A id \in 1..MaxReq : waiters[id] = "waiting" => InQueueOrHeld(id))

C16_Witness ==
    \E id \in 1..MaxReq, other \in 1..MaxReq, w \in Workers :
        /\ waiters[id] = "Timeout"
        /\ pc[w] = "result"
        /\ wreq[w].id = id
        /\ wreq[w].retry_count >= 1
        /\ wres[w] = "Ok"
        /\ waiters[other] = "ConfigError"

\* C21: when enqueue or enqueue_batch rejects a request because
\* max_queue_size would be exceeded, the error returned is the QueueFull
\* variant of the error taxonomy.
C21_RejectionIsQueueFull ==
    (ret[1] \in {"enqueue", "enqueue_batch"} /\ ret[2] # "Ok") => ret[2] = "QueueFull"

\* no request is in the queue, being processed or awaiting its retry push
Quiescent == queue = {} /\ \A w \in Workers : wreq[w] = NoReq

\* C28: whenever the queue is quiescent, stats.pending = 0 and
\* stats.processing = 0: with several workers popping and re-enqueuing
\* retries, stats.pending never ends up larger than the number of requests
\* actually queued.
C28_QuiescentStatsZero == Quiescent => stats.pending = 0 /\ stats.processing = 0

\* C29: at every observable moment each accepted request is counted in
\* exactly one of pending, processing, completed, failed: the four counters
\* add up to the number of requests accepted so far, and pending is the
\* number of requests held in the queue.
C29_StatsCountEveryRequest ==
    /\ stats.pending + stats.processing + stats.completed + stats.failed = nextId
    /\ stats.pending = Cardinality(queue)

\* the permits of agent a's semaphore that are taken
HeldPermits(a) == MaxConcurrentPerAgent - FreePermits(a)

\* the workers that are processing a request of agent a
Processing(a) == {w \in Workers : pc[w] \in {"process", "result"} /\ wreq[w].agent_id = a}

\* C30: a worker's per-agent permit is released on every exit path of
\* processing, and on a retry before the retry delay is waited out and the
\* request is re-enqueued: permits are held only by workers that are
\* processing, never while the request sits in the queue.
C30_PermitOnlyWhileProcessing ==
    \A a \in Agents : HeldPermits(a) = Cardinality(Processing(a))

\* in store st, the head of (d, frame_type) is a synthesized frame
SynthesizedHead(d, frame_type, st) ==
    /\ GetHead(st.heads, d, frame_type) # None
    /\ StorageGet(st.frames, GetHead(st.heads, d, frame_type)[1]) # None
    /\ StorageGet(st.frames, GetHead(st.heads, d, frame_type)[1])[1].metadata.basis_hash # None

\* C27: a recursive regenerate_node regenerates the children of each node
\* before the node itself (post-order): after one recursive run over a
\* subtree, every synthesized head in it is consistent with the current
\* heads of its children.
C27_RecursiveRunLeavesSubtreeFresh ==
    \A n \in Nodes, a \in AgentIds, order \in TypeOrders :
        LET run == RegenerateNode(NewRun(frames, heads, basis_index, 0), n, TRUE, a, order)
        IN  \A d \in Subtree(Children, n), t \in FrameTypes :
                SynthesizedHead(d, t, run) => ~TypeChanged(d, t, run)

(***************************************************************************)
(* Frame::new on its own: callers that author a frame, and regenerate_node *)
(* that rebuilds one from the metadata of the head it replaces             *)
(***************************************************************************)
MaxNow == 1
FrameAgents == {"agent-1", "agent-2"}
FrameBases == {NodeBasis(1), FrameBasis(Digest("child"))}
\* the metadata a caller supplies: with or without an agent_id and a policy
SuppliedMetadata ==
    {[EmptyMetadata EXCEPT !.agent_id = a, !.synthesis_policy = p] :
        a \in {None} \cup {Some(x) : x \in FrameAgents},
        p \in {None, Some("concatenation")}}

\* the Frame with the `timestamp: SystemTime::now()` field Frame::new gives it
Stamped(frame, now) == [frame |-> frame, timestamp |-> now]

\* a caller builds a frame
FrameNewCall(basis, content, frame_type, agent_id, metadata, now) ==
    /\ newFrame' = Some(Stamped(FrameNew(basis, content, frame_type, agent_id, metadata), now))
    /\ newFrameArgs' = Some([agent_id |-> agent_id, metadata |-> metadata, by |-> "caller"])
    /\ UNCHANGED notFrame

\* regenerate_node replaces a synthesized head of a directory that has no
\* child frames
RegenerateEmpty(node_id, agent_id, now) ==
    /\ newFrame # None
    /\ LET head_frame == newFrame[1].frame
       IN  /\ newFrame' = Some(Stamped(EmptyDirectoryFrame(node_id, head_frame.frame_type,
                                                        agent_id, head_frame), now))
           /\ newFrameArgs' = Some([agent_id |-> agent_id, metadata |-> head_frame.metadata,
                                 by |-> "regenerate"])
    /\ UNCHANGED notFrame

\* regenerate_node replaces a synthesized head from one child frame
RegenerateFromChild(node_id, child, child_content, agent_id, now) ==
    /\ newFrame # None
    /\ LET head_frame == newFrame[1].frame
           child_frame == FrameNew(NodeBasis(child), child_content, head_frame.frame_type,
                                   agent_id, EmptyMetadata)
       IN  /\ newFrame' = Some(Stamped(ResynthesizedFrame(node_id, head_frame.frame_type,
                                                       agent_id, head_frame,
                                                       << <<child, child_frame>> >>), now))
           /\ newFrameArgs' = Some([agent_id |-> agent_id, metadata |-> head_frame.metadata,
                                 by |-> "regenerate"])
    /\ UNCHANGED notFrame

FrameNext ==
    \/ \E basis \in FrameBases, content \in AuthoredContents, frame_type \in FrameTypes,
          agent_id \in FrameAgents, metadata \in SuppliedMetadata, now \in 0..MaxNow :
            FrameNewCall(basis, content, frame_type, agent_id, metadata, now)
    \/ \E agent_id \in FrameAgents, now \in 0..MaxNow : RegenerateEmpty(1, agent_id, now)
    \/ \E content \in AuthoredContents, agent_id \in FrameAgents, now \in 0..MaxNow :
            RegenerateFromChild(1, 3, content, agent_id, now)

SpecFrame == Init /\ [][FrameNext]_vars

\* C22: every frame Frame::new returns, to a caller or to regenerate_node,
\* carries the agent_id it was passed under metadata["agent_id"], whatever
\* agent_id the supplied metadata had, and its FrameID is compute_frame_id of
\* its basis, content, frame type and that agent_id: the FrameID is the one
\* the same call gets with empty metadata, at any timestamp.
C22_FrameIdFromAgentInMetadata ==
    newFrame # None =>
        LET f == newFrame[1].frame
        IN  /\ f.metadata.agent_id = Some(newFrameArgs[1].agent_id)
            /\ f.frame_id = ComputeFrameId(f.basis, f.content, f.frame_type,
                                           f.metadata.agent_id[1])
            /\ f.frame_id = FrameNew(f.basis, f.content, f.frame_type,
                                     newFrameArgs[1].agent_id, EmptyMetadata).frame_id

\* regenerate_node has rebuilt, for one agent, a head whose metadata named
\* another agent and a synthesis policy
C22_Witness ==
    /\ newFrame # None
    /\ newFrameArgs[1].by = "regenerate"
    /\ newFrameArgs[1].metadata.agent_id # None
    /\ newFrameArgs[1].metadata.agent_id # Some(newFrameArgs[1].agent_id)
    /\ newFrameArgs[1].metadata.synthesis_policy # None
    /\ newFrame[1].timestamp = MaxNow
    /\ newFrame[1].frame.basis.kind = "Frame"

(***************************************************************************)
(* StorageConfig::resolve_paths and xdg::workspace_data_dir.  A path is    *)
(* the sequence of its components, "/" being Component::RootDir.           *)
(***************************************************************************)
MaxDepth == 3
MaxWorkspaces == 2
RootDir == "/"
PathNames == {"a", "store", "frames"}
\* what canonicalize() returns: an absolute path of Normal components
CanonicalPaths ==
    UNION {{<<RootDir>> \o names : names \in [1..n -> PathNames]} : n \in 0..MaxDepth}

Join(path, rel) == path \o rel

\* data_home(): $XDG_DATA_HOME
DataHome == <<RootDir, "data">>

DefaultStorePath == <<".merkle", "store">>
DefaultFramesPath == <<".merkle", "frames">>
\* the store_path / frames_path settings a configuration can carry
StorePaths == {DefaultStorePath, <<"db">>}
FramesPaths == {DefaultFramesPath, <<"fr">>}

\* the loop over canonical.components(): only Normal components are joined
RECURSIVE JoinNormal(_, _, _)
JoinNormal(data_dir, canonical, i) ==
    IF i > Len(canonical) THEN data_dir
    ELSE IF canonical[i] = RootDir THEN JoinNormal(data_dir, canonical, i + 1)
    ELSE JoinNormal(Join(data_dir, <<canonical[i]>>), canonical, i + 1)

WorkspaceDataDir(canonical) == JoinNormal(Join(DataHome, <<"meld">>), canonical, 1)

ResolvePaths(config, workspace_root) ==
    LET is_default_store == config.store_path = DefaultStorePath
        is_default_frames == config.frames_path = DefaultFramesPath
    IN  [store_path |-> IF is_default_store
                        THEN Join(WorkspaceDataDir(workspace_root), <<"store">>)
                        ELSE Join(workspace_root, config.store_path),
         frames_path |-> IF is_default_frames
                         THEN Join(WorkspaceDataDir(workspace_root), <<"frames">>)
                         ELSE Join(workspace_root, config.frames_path)]

\* a workspace is opened: its storage paths are resolved
OpenWorkspace(config, workspace_root) ==
    /\ Cardinality(resolved) < MaxWorkspaces
    /\ resolved' = resolved \cup {[workspace_root |-> workspace_root, config |-> config,
                                   paths |-> ResolvePaths(config, workspace_root)]}
    /\ UNCHANGED notPaths

\* a workspace is closed
CloseWorkspace(w) ==
    /\ resolved' = resolved \ {w}
    /\ UNCHANGED notPaths

PathsNext ==
    \/ \E store_path \in StorePaths, frames_path \in FramesPaths,
          workspace_root \in CanonicalPaths :
            OpenWorkspace([store_path |-> store_path, frames_path |-> frames_path],
                          workspace_root)
    \/ \E w \in resolved : CloseWorkspace(w)

SpecPaths == Init /\ [][PathsNext]_vars

IsPrefix(p, q) == Len(p) <= Len(q) /\ SubSeq(q, 1, Len(p)) = p
\* one directory equals, contains or lies inside the other
Overlap(p, q) == IsPrefix(p, q) \/ IsPrefix(q, p)
\* the directories of an opened workspace that are the defaults
DefaultDirs(w) ==
    (IF w.config.store_path = DefaultStorePath THEN {w.paths.store_path} ELSE {})
    \cup (IF w.config.frames_path = DefaultFramesPath THEN {w.paths.frames_path} ELSE {})

\* C23: for two workspaces with distinct canonical paths, no default store or
\* frames directory of one equals, contains or lies inside a default
\* directory of the other.
C23_DefaultDirsDisjoint ==
    \A w1 \in resolved, w2 \in resolved :
        w1.workspace_root # w2.workspace_root =>
            \A d1 \in DefaultDirs(w1), d2 \in DefaultDirs(w2) : ~Overlap(d1, d2)

(***************************************************************************)
(* AgentIdentity, AgentRegistry and the checks context generate makes      *)
(* before it builds a plan                                                 *)
(***************************************************************************)
Reader == "AgentRole::Reader"
Writer == "AgentRole::Writer"
AgentRoles == {Reader, Writer}
Read == "Capability::Read"
Write == "Capability::Write"
\* the one provider the provider registry knows
ProviderNames == {"provider-1"}

\* AgentIdentity::new giving every role both capabilities
AgentIdentityNew_AllWrite(agent_id, role) ==
    [agent_id |-> agent_id, role |-> role, capabilities |-> <<Read, Write>>,
     system_prompt |-> FALSE]

\* AgentIdentity::new; of the metadata only the presence of system_prompt is kept
AgentIdentityNew(agent_id, role) ==
    [agent_id |-> agent_id,
     role |-> role,
     capabilities |-> IF role = Reader THEN <<Read>> ELSE <<Read, Write>>,
     system_prompt |-> FALSE]

Contains(vec, x) == \E i \in 1..Len(vec) : vec[i] = x
CanWrite(identity) == Contains(identity.capabilities, Write)
VerifyWrite(identity) == IF ~CanWrite(identity) THEN "Unauthorized" ELSE "Ok"

\* AgentRegistry::get_or_error, behind ContextApi::get_agent
GetAgent(registry, agent_id) ==
    IF registry[agent_id] = None
    THEN [err |-> "Unauthorized", agent |-> None]
    ELSE [err |-> "Ok", agent |-> registry[agent_id]]

\* AgentRegistry::list_by_role(Some(role)), as agent ids
ListByRole(registry, role) ==
    {a \in DOMAIN registry : registry[a] # None /\ registry[a][1].role = role}

\* CliContext::resolve_agent_id
ResolveAgentId(registry, agent) ==
    IF agent # None
    THEN [err |-> GetAgent(registry, agent[1]).err, agent_id |-> agent]
    ELSE LET agent_ids == ListByRole(registry, Writer)
         IN  IF Cardinality(agent_ids) = 1
             THEN [err |-> "Ok", agent_id |-> Some(CHOOSE a \in agent_ids : TRUE)]
             ELSE [err |-> "ConfigError", agent_id |-> None]

\* CliContext::resolve_provider_name, for no provider or a registered one
ResolveProviderName(provider) ==
    IF provider = None THEN "ProviderNotConfigured" ELSE "Ok"

\* handle_context_generate from its first line to the plan: the error it
\* returns with, or "Ok"
GenerateChecks(registry, node_given, agent, provider) ==
    IF ~node_given THEN "ConfigError"
    ELSE LET resolved_agent == ResolveAgentId(registry, agent)
         IN  IF resolved_agent.err # "Ok" THEN resolved_agent.err
             ELSE IF ResolveProviderName(provider) # "Ok" THEN ResolveProviderName(provider)
             ELSE LET identity == GetAgent(registry, resolved_agent.agent_id[1]).agent[1]
                  IN  IF identity.role # Writer THEN "Unauthorized"
                      ELSE IF ~identity.system_prompt THEN "ConfigError"
                      ELSE "Ok"

\* load_from_xdg after an agent's configuration was created or edited
LoadAgent(agent_id, role, system_prompt) ==
    /\ execPc \in {"idle", "returned"}
    /\ agents' = [agents EXCEPT ![agent_id] =
                     Some([AgentIdentityNew(agent_id, role) EXCEPT
                              !.system_prompt = system_prompt])]
    /\ UNCHANGED <<lastCmd, pvars, notAuth>>

\* AgentRegistry::remove
RemoveAgent(agent_id) ==
    /\ execPc \in {"idle", "returned"}
    /\ agents[agent_id] # None
    /\ agents' = [agents EXCEPT ![agent_id] = None]
    /\ UNCHANGED <<lastCmd, pvars, notAuth>>

\* context generate, the whole handler: the command ends on the first check
\* that fails and plans otherwise
ContextGenerate(node_given, agent, provider, target, no_recursive, force) ==
    /\ lastCmd' = [node_given |-> node_given, agent |-> agent, provider |-> provider]
    /\ IF GenerateChecks(agents, node_given, agent, provider) # "Ok"
       THEN /\ execPc \in {"idle", "returned"}
            /\ commands < MaxCommands
            /\ commands' = commands + 1
            /\ cmdRet' = GenerateChecks(agents, node_given, agent, provider)
            /\ execPc' = "returned"
            /\ planArgs' = NoArgs
            /\ plan' = NoPlan
            /\ execLevel' = 0
            /\ inflight' = {}
            /\ execResult' = NoResult
            /\ UNCHANGED <<planTree, planHeads>>
       ELSE HandleContextGenerate(target, no_recursive, force)
    /\ UNCHANGED <<agents, notAuth>>

AuthNext ==
    \/ \E agent_id \in AuthAgentIds, role \in AgentRoles, system_prompt \in BOOLEAN :
            LoadAgent(agent_id, role, system_prompt)
    \/ \E agent_id \in AuthAgentIds : RemoveAgent(agent_id)
    \/ \E node_given \in BOOLEAN, agent \in {None} \cup {Some(a) : a \in AuthAgentIds},
          provider \in {None} \cup {Some(p) : p \in ProviderNames},
          no_recursive, force \in BOOLEAN :
            ContextGenerate(node_given, agent, provider, 1, no_recursive, force)
    \/ ExecuteSubmit /\ UNCHANGED <<avars, notAuth>>
    \/ \E item \in inflight, generated \in BOOLEAN :
            ExecuteResolve(item, generated) /\ UNCHANGED <<avars, notAuth>>
    \/ ExecuteReturn /\ UNCHANGED <<avars, notAuth>>

SpecAuth == InitAuth /\ [][AuthNext]_vars

\* every registered agent has the capabilities of its role, and verify_write
\* answers by the role
CapabilitiesByRole ==
    \A a \in AuthAgentIds :
        agents[a] # None =>
            LET identity == agents[a][1]
            IN  /\ identity.role = Reader =>
                    /\ identity.capabilities = <<Read>>
                    /\ VerifyWrite(identity) = "Unauthorized"
                /\ identity.role = Writer =>
                    /\ identity.capabilities = <<Read, Write>>
                    /\ VerifyWrite(identity) = "Ok"

\* the step is a context generate command naming a registered agent that is
\* not a Writer
GenerateByNonWriter ==
    /\ commands' = commands + 1
    /\ lastCmd'.agent # None
    /\ agents[lastCmd'.agent[1]] # None
    /\ agents[lastCmd'.agent[1]][1].role # Writer

\* the command ended without a plan and without a request
NothingPlanned ==
    /\ execPc' = "returned"
    /\ cmdRet' \notin {"none", "Ok"}
    /\ plan' = NoPlan
    /\ inflight' = {}

MaxWrites == 3

\* the caller: NodeLockManager write guard of `node_id`, `&mut` of both indices
RegenBegin(t, node_id, recursive) ==
    /\ wpc[t] = "idle"
    /\ nodeWriter[node_id] = 0
    /\ nodeReaders[node_id] = {}
    /\ indexOwner = 0
    /\ nodeWriter' = [nodeWriter EXCEPT ![node_id] = t]
    /\ indexOwner' = t
    /\ wpc' = [wpc EXCEPT ![t] = "visit"]
    /\ wtarget' = [wtarget EXCEPT ![t] = node_id]
    /\ wrec' = [wrec EXCEPT ![t] = recursive]
    /\ wtodo' = [wtodo EXCEPT ![t] = <<node_id>>]
    /\ UNCHANGED <<nodeReaders, wframe, storedFrames, indexedFrames, nodeHead, nextFrame>>

\* `if recursive { for child_id in &node_record.children { regenerate_node(child) } }`
AfterNode(todo, recursive) ==
    IF recursive THEN WriteChildren[Head(todo)] \o Tail(todo) ELSE Tail(todo)

\* nothing of the node has changed: `changed_types.is_empty()`
RegenSkip(t) ==
    /\ wpc[t] = "visit"
    /\ wtodo[t] # <<>>
    /\ wtodo' = [wtodo EXCEPT ![t] = AfterNode(@, wrec[t])]
    /\ UNCHANGED <<nodeWriter, nodeReaders, indexOwner, wpc, wtarget, wrec, wframe,
                   storedFrames, indexedFrames, nodeHead, nextFrame>>

\* frame_storage.store(&new_frame)
RegenStore(t) ==
    /\ wpc[t] = "visit"
    /\ wtodo[t] # <<>>
    /\ nextFrame <= MaxWrites
    /\ storedFrames' = storedFrames \cup {nextFrame}
    /\ wframe' = [wframe EXCEPT ![t] = nextFrame]
    /\ nextFrame' = nextFrame + 1
    /\ wpc' = [wpc EXCEPT ![t] = "stored"]
    /\ UNCHANGED <<nodeWriter, nodeReaders, indexOwner, wtarget, wrec, wtodo,
                   indexedFrames, nodeHead>>

\* basis_index.add_frame(frame_basis_hash, new_frame.frame_id)
RegenIndex(t) ==
    /\ wpc[t] = "stored"
    /\ indexedFrames' = indexedFrames \cup {wframe[t]}
    /\ wpc' = [wpc EXCEPT ![t] = "indexed"]
    /\ UNCHANGED <<nodeWriter, nodeReaders, indexOwner, wtarget, wrec, wtodo, wframe,
                   storedFrames, nodeHead, nextFrame>>

\* head_index.update_head(&node_id, frame_type, &new_frame.frame_id)
RegenHead(t) ==
    /\ wpc[t] = "indexed"
    /\ nodeHead' = [nodeHead EXCEPT ![Head(wtodo[t])] = wframe[t]]
    /\ wtodo' = [wtodo EXCEPT ![t] = AfterNode(@, wrec[t])]
    /\ wframe' = [wframe EXCEPT ![t] = 0]
    /\ wpc' = [wpc EXCEPT ![t] = "visit"]
    /\ UNCHANGED <<nodeWriter, nodeReaders, indexOwner, wtarget, wrec,
                   storedFrames, indexedFrames, nextFrame>>

\* regenerate_node returns; the caller drops the guard and the borrows
RegenReturn(t) ==
    /\ wpc[t] = "visit"
    /\ wtodo[t] = <<>>
    /\ nodeWriter' = [nodeWriter EXCEPT ![wtarget[t]] = 0]
    /\ indexOwner' = 0
    /\ wpc' = [wpc EXCEPT ![t] = "idle"]
    /\ wtarget' = [wtarget EXCEPT ![t] = 0]
    /\ UNCHANGED <<nodeReaders, wrec, wtodo, wframe, storedFrames, indexedFrames,
                   nodeHead, nextFrame>>

\* a reader takes the read guard of a node
ReaderLock(t, node_id) ==
    /\ wpc[t] = "idle"
    /\ nodeWriter[node_id] = 0
    /\ nodeReaders' = [nodeReaders EXCEPT ![node_id] = @ \cup {t}]
    /\ wpc' = [wpc EXCEPT ![t] = "reading"]
    /\ wtarget' = [wtarget EXCEPT ![t] = node_id]
    /\ UNCHANGED <<nodeWriter, indexOwner, wrec, wtodo, wframe, storedFrames,
                   indexedFrames, nodeHead, nextFrame>>

\* and drops it
ReaderUnlock(t) ==
    /\ wpc[t] = "reading"
    /\ nodeReaders' = [nodeReaders EXCEPT ![wtarget[t]] = @ \ {t}]
    /\ wpc' = [wpc EXCEPT ![t] = "idle"]
    /\ UNCHANGED <<nodeWriter, indexOwner, wtarget, wrec, wtodo, wframe, storedFrames,
                   indexedFrames, nodeHead, nextFrame>>

WriteNext ==
    \/ \E t \in WriteThreads, node_id \in WriteNodes, recursive \in BOOLEAN :
            RegenBegin(t, node_id, recursive) /\ UNCHANGED notWrite
    \/ \E t \in WriteThreads : RegenSkip(t) /\ UNCHANGED notWrite
    \/ \E t \in WriteThreads : RegenStore(t) /\ UNCHANGED notWrite
    \/ \E t \in WriteThreads : RegenIndex(t) /\ UNCHANGED notWrite
    \/ \E t \in WriteThreads : RegenHead(t) /\ UNCHANGED notWrite
    \/ \E t \in WriteThreads : RegenReturn(t) /\ UNCHANGED notWrite
    \/ \E t \in WriteThreads, node_id \in WriteNodes :
            ReaderLock(t, node_id) /\ UNCHANGED notWrite
    \/ \E t \in WriteThreads : ReaderUnlock(t) /\ UNCHANGED notWrite

SpecWrite == Init /\ [][WriteNext]_vars

\* the thread is between the store of a frame of node n and the move of n's head
Writing(t, n) == wpc[t] \in {"stored", "indexed"} /\ Head(wtodo[t]) = n

\* C26: a thread that is writing a node holds that node's writer lock from
\* the frame store to the head update, so no two threads write one node at
\* the same time, and the head a reader sees under the node's reader lock
\* is a frame that is stored and indexed.
C26_WritesHoldNodeWriterLock ==
    /\ \A t \in WriteThreads, n \in WriteNodes : Writing(t, n) => nodeWriter[n] = t
    /\ \A t1 \in WriteThreads, t2 \in WriteThreads, n \in WriteNodes :
            Writing(t1, n) /\ Writing(t2, n) => t1 = t2
    /\ \A t \in WriteThreads, n \in WriteNodes :
            (t \in nodeReaders[n] /\ nodeHead[n] # 0)
                => nodeHead[n] \in storedFrames /\ nodeHead[n] \in indexedFrames

(***************************************************************************)
(* AgentRateLimiter and the part of worker_loop that runs a request under  *)
(* it, with rate_limit_ms configured and several agents                    *)
(***************************************************************************)
LimitPermits == 2
MinDelay == 2
MaxClock == 4
MaxStarts == 4

\* AgentRateLimiter::new
AgentRateLimiterNew(max_concurrent, min_delay_ms) ==
    [permits |-> max_concurrent, last_request |-> None, min_delay |-> min_delay_ms]

\* rate_limiters.entry(agent_id).or_insert_with(|| AgentRateLimiter::new(..))
LimiterEntry(map, agent_id) ==
    IF agent_id \in DOMAIN map THEN map
    ELSE [a \in DOMAIN map \cup {agent_id} |->
            IF a = agent_id THEN AgentRateLimiterNew(LimitPermits, Some(MinDelay))
            ELSE map[a]]

\* semaphore.acquire() that never waits
PermitAvailable_Always(limiter) == TRUE

\* semaphore.acquire() can return
PermitAvailable(limiter) == limiter.permits > 0

\* the sleep_duration block of acquire
SleepDuration(limiter, instant) ==
    IF limiter.last_request # None
    THEN LET elapsed == instant - limiter.last_request[1]
         IN  IF elapsed < limiter.min_delay[1]
             THEN Some(limiter.min_delay[1] - elapsed)
             ELSE None
    ELSE None

Started == {w \in LimitWorkers : lpc[w] # "idle"}
RECURSIVE TotalStarts(_)
TotalStarts(as) ==
    IF as = {} THEN 0
    ELSE LET a == CHOOSE x \in as : TRUE IN Len(starts[a]) + TotalStarts(as \ {a})

\* a worker has popped a request of `agent_id`
LimitTake(w, agent_id) ==
    /\ lpc[w] = "idle"
    /\ TotalStarts(LimitAgents) + Cardinality(Started) < MaxStarts
    /\ lpc' = [lpc EXCEPT ![w] = "limiter"]
    /\ lagent' = [lagent EXCEPT ![w] = agent_id]
    /\ UNCHANGED <<agentLimiters, lwake, lclock, starts>>

\* it gets or creates the agent's limiter
LimitEntry(w) ==
    /\ lpc[w] = "limiter"
    /\ agentLimiters' = LimiterEntry(agentLimiters, lagent[w])
    /\ lpc' = [lpc EXCEPT ![w] = "acquire"]
    /\ UNCHANGED <<lagent, lwake, lclock, starts>>

\* acquire: self.semaphore.acquire().await
LimitSemaphore(w) ==
    /\ lpc[w] = "acquire"
    /\ PermitAvailable(agentLimiters[lagent[w]])
    /\ agentLimiters' = [agentLimiters EXCEPT ![lagent[w]].permits = @ - 1]
    /\ lpc' = [lpc EXCEPT ![w] = "read"]
    /\ UNCHANGED <<lagent, lwake, lclock, starts>>

\* acquire: last_request is read and the sleep is computed
LimitRead(w) ==
    /\ lpc[w] = "read"
    /\ LET sleep_duration == SleepDuration(agentLimiters[lagent[w]], lclock)
       IN  IF sleep_duration # None
           THEN /\ lwake' = [lwake EXCEPT ![w] = lclock + sleep_duration[1]]
                /\ lpc' = [lpc EXCEPT ![w] = "sleep"]
           ELSE /\ lpc' = [lpc EXCEPT ![w] = "write"]
                /\ UNCHANGED lwake
    /\ UNCHANGED <<agentLimiters, lagent, lclock, starts>>

\* acquire: sleep(duration).await is over
LimitWake(w) ==
    /\ lpc[w] = "sleep"
    /\ lclock >= lwake[w]
    /\ lpc' = [lpc EXCEPT ![w] = "write"]
    /\ UNCHANGED <<agentLimiters, lagent, lwake, lclock, starts>>

\* acquire: last_request is set to Instant::now(), the permit is returned and
\* process_request starts
LimitWrite(w) ==
    /\ lpc[w] = "write"
    /\ agentLimiters' = [agentLimiters EXCEPT ![lagent[w]].last_request = Some(lclock)]
    /\ starts' = [starts EXCEPT ![lagent[w]] = Append(@, lclock)]
    /\ lpc' = [lpc EXCEPT ![w] = "processing"]
    /\ UNCHANGED <<lagent, lwake, lclock>>

\* the loop body ends: `_permit` is dropped
LimitFinish(w) ==
    /\ lpc[w] = "processing"
    /\ agentLimiters' = [agentLimiters EXCEPT ![lagent[w]].permits = @ + 1]
    /\ lpc' = [lpc EXCEPT ![w] = "idle"]
    /\ UNCHANGED <<lagent, lwake, lclock, starts>>

\* time passes
LimitTick ==
    /\ lclock < MaxClock
    /\ lclock' = lclock + 1
    /\ UNCHANGED <<agentLimiters, lpc, lagent, lwake, starts>>

LimitNext ==
    \/ \E w \in LimitWorkers, a \in LimitAgents : LimitTake(w, a) /\ UNCHANGED notLimit
    \/ \E w \in LimitWorkers : LimitEntry(w) /\ UNCHANGED notLimit
    \/ \E w \in LimitWorkers : LimitSemaphore(w) /\ UNCHANGED notLimit
    \/ \E w \in LimitWorkers : LimitRead(w) /\ UNCHANGED notLimit
    \/ \E w \in LimitWorkers : LimitWake(w) /\ UNCHANGED notLimit
    \/ \E w \in LimitWorkers : LimitWrite(w) /\ UNCHANGED notLimit
    \/ \E w \in LimitWorkers : LimitFinish(w) /\ UNCHANGED notLimit
    \/ LimitTick /\ UNCHANGED notLimit

SpecLimit == Init /\ [][LimitNext]_vars

\* the workers that hold a request of agent a, have got a permit and have
\* not finished the request
PastAcquire(a) ==
    {w \in LimitWorkers : lagent[w] = a /\ lpc[w] \in {"read", "sleep", "write", "processing"}}

\* C31: of one agent at most max_concurrent_per_agent requests are past the
\* acquisition of the rate limiter and not finished, with more workers than
\* permits; each agent has its own semaphore, whose free permits are the
\* configured number less that agent's own requests past acquisition.
C31_PermitsBoundPerAgent ==
    \A a \in LimitAgents :
        /\ Cardinality(PastAcquire(a)) <= LimitPermits
        /\ a \in DOMAIN agentLimiters =>
                agentLimiters[a].permits = LimitPermits - Cardinality(PastAcquire(a))

\* one agent's permits are all taken and a worker waits for one, while a
\* request of the other agent has got its permit
C31_Witness ==
    /\ Cardinality(PastAcquire("agent-1")) = LimitPermits
    /\ agentLimiters["agent-1"].permits = 0
    /\ Cardinality(PastAcquire("agent-2")) = 1

\* C32: two consecutive starts of requests of one agent are at least the
\* configured minimum delay apart.
C32_StartsMinDelayApart ==
    \A a \in LimitAgents :
        \A i \in 1..(Len(starts[a]) - 1) : starts[a][i + 1] - starts[a][i] >= MinDelay

(***************************************************************************)
(* The running queue under a fair scheduler.  The tokio runtime polls      *)
(* every ready worker task, a timer that was armed fires, and the provider *)
(* call of process_request returns: each worker takes its next step when   *)
(* that step stays possible.  Callers are under no obligation to enqueue.  *)
(***************************************************************************)
\* requests accepted before callers stop enqueueing
MaxLiveReq == 2

\* the next step of worker w, whichever line of worker_loop it is at
WorkerStep(w) ==
    \/ WorkerTop(w)
    \/ WorkerPop(w)
    \/ WorkerTimeout(w)
    \/ WorkerStatsPop(w)
    \/ WorkerAcquire(w)
    \/ \E r \in {"Ok", "ProviderError", "ConfigError"} : WorkerProcess(w, r)
    \/ WorkerResult(w)
    \/ WorkerRequeue(w)
    \/ WorkerNotifyRetry(w)
    \/ WorkerStatsRetry(w)

WorkersFair == \A w \in Workers : WF_vars(WorkerStep(w) /\ UNCHANGED notQueue)

\* callers enqueue at most MaxLiveReq requests, one at a time or as a batch
LiveNext ==
    \/ \E a \in Agents, p \in {Normal}, t \in Stamps :
           nextId < MaxLiveReq /\ Enqueue(a, p, t) /\ UNCHANGED notQueue
    \/ \E b \in {x \in Batches : \A i \in 1..Len(x) : x[i][2] = Normal} :
           nextId + Len(b) <= MaxLiveReq /\ EnqueueBatch(b) /\ UNCHANGED notQueue
    \/ Start /\ UNCHANGED notQueue
    \/ \E w \in Workers : WorkerTop(w) /\ UNCHANGED notQueue
    \/ \E w \in Workers : WorkerPop(w) /\ UNCHANGED notQueue
    \/ \E w \in Workers : WorkerTimeout(w) /\ UNCHANGED notQueue
    \/ \E w \in Workers : WorkerStatsPop(w) /\ UNCHANGED notQueue
    \/ \E w \in Workers : WorkerAcquire(w) /\ UNCHANGED notQueue
    \/ \E w \in Workers, r \in {"Ok", "ProviderError", "ConfigError"} :
           WorkerProcess(w, r) /\ UNCHANGED notQueue
    \/ \E w \in Workers : WorkerResult(w) /\ UNCHANGED notQueue
    \/ \E w \in Workers : WorkerRequeue(w) /\ UNCHANGED notQueue
    \/ \E w \in Workers : WorkerNotifyRetry(w) /\ UNCHANGED notQueue
    \/ \E w \in Workers : WorkerStatsRetry(w) /\ UNCHANGED notQueue

SpecQueueLive == Init /\ [][LiveNext]_vars /\ WorkersFair

\* enqueue or enqueue_batch returned Ok for request i
Accepted(i) == nextId >= i

\* request i is neither in the heap nor in the hands of a worker: its last
\* process_request ended in completed or in a permanent failure
Settled(i) ==
    /\ Accepted(i)
    /\ \A r \in queue : r.id # i
    /\ \A w \in Workers : wreq[w].id # i

SynthesisPolicies == {Concatenation, Summarization}

\* tombstone compaction drops the head of a deleted file
CompactHead(node_id, frame_type) ==
    /\ <<node_id, frame_type>> \in DOMAIN heads
    /\ heads' = [k \in DOMAIN heads \ {<<node_id, frame_type>>} |-> heads[k]]
    /\ report' = NoReport
    /\ UNCHANGED <<frames, basis_index>>

\* the head frames of files: authored, no basis_hash in the metadata
AuthoredHeads ==
    {heads[k] : k \in {j \in DOMAIN heads : j[1] \in Files}}

\* the frame types a RegenerationReport names: node_id, regenerated_count,
\* frame_ids and duration_ms hold none
ReportedStaleTypes(rep) == {}

SynthNext ==
    \/ \E n \in Files, c \in AuthoredContents, a \in AgentIds :
           PutFrame(n, "context", c, a) /\ UNCHANGED notStore
    \/ \E n \in Directories, p \in SynthesisPolicies, a \in AgentIds :
           Synthesize(n, "context", p, a) /\ UNCHANGED notStore
    \/ \E n \in Nodes, rec \in BOOLEAN, a \in AgentIds, order \in TypeOrders :
           Regenerate(n, rec, a, 0, order) /\ UNCHANGED notStore
    \/ \E n \in Files : CompactHead(n, "context") /\ UNCHANGED notStore
    \/ \E h \in SampleHashes, f \in AuthoredHeads : BasisAdd(h, f) /\ UNCHANGED notStore

SpecSynth == Init /\ [][SynthNext]_vars

\* the step is a regenerate_node call
RegenStep == report'.result # "none"

\* the step moved the head of (node_id, frame_type)
HeadRewritten(node_id, frame_type) ==
    /\ GetHead(heads', node_id, frame_type) # None
    /\ GetHead(heads', node_id, frame_type) # GetHead(heads, node_id, frame_type)

HeadFrameBefore(node_id, frame_type) ==
    StorageGet(frames, GetHead(heads, node_id, frame_type)[1])[1]

HeadFrameAfter(node_id, frame_type) ==
    StorageGet(frames', GetHead(heads', node_id, frame_type)[1])[1]

\* the metadata the synthesizer gives a frame built from child_frames
StandardSynthesisMetadata(frame, node_id, child_frames) ==
    /\ frame.metadata.synthesis_policy # None
    /\ frame.metadata.child_frame_count = Some(Len(child_frames))
    /\ \E p \in SynthesisPolicies :
           frame.metadata.basis_hash =
               Some(HexOf(SynthesisBasisHash(node_id, ChildFrameIds(child_frames),
                                             frame.frame_type, p)))

\* C34: every frame regeneration writes for a directory, the empty-directory
\* sentinel included, carries synthesis_policy, a child_frame_count equal to
\* the number of child head frames it was built from, and the hex synthesis
\* basis hash of exactly those child frames
C34_RegeneratedFramesCarrySynthesisMetadata ==
    [][\A n \in Directories, t \in FrameTypes :
           (RegenStep /\ HeadRewritten(n, t)) =>
               StandardSynthesisMetadata(
                   HeadFrameAfter(n, t), n,
                   ChildFrames(n, t, [frames |-> frames, heads |-> heads]))]_vars

\* the head (node_id, frame_type) is a synthesized frame
SynthesizedHeadAt(h, fs, node_id, frame_type) ==
    /\ GetHead(h, node_id, frame_type) # None
    /\ StorageGet(fs, GetHead(h, node_id, frame_type)[1]) # None
    /\ StorageGet(fs, GetHead(h, node_id, frame_type)[1])[1].metadata.basis_hash # None

\* detect_basis_changes and regenerate_node read one policy from every
\* synthesized head
ReadersAgree ==
    \A n \in Directories, t \in FrameTypes :
        SynthesizedHeadAt(heads, frames, n, t) =>
            DetectPolicy(HeadFrameBefore(n, t).metadata)
                = RegenPolicy(HeadFrameBefore(n, t).metadata)

\* C35: the frame that replaces a synthesized head records the policy of the
\* head it replaces, over any number of regenerations, and both readers of
\* synthesis_policy read the same policy from the same head
C35_PolicyPreserved ==
    /\ [][\A n \in Directories, t \in FrameTypes :
             (RegenStep /\ HeadRewritten(n, t)
                 /\ SynthesizedHeadAt(heads, frames, n, t)) =>
                 DetectPolicy(HeadFrameAfter(n, t).metadata)
                     = DetectPolicy(HeadFrameBefore(n, t).metadata)]_vars
    /\ []ReadersAgree

\* the head of (node_id, frame_type) is authored and its basis hash is not
\* the one the basis index holds for it
StaleAuthored(node_id, frame_type) ==
    /\ GetHead(heads, node_id, frame_type) # None
    /\ StorageGet(frames, GetHead(heads, node_id, frame_type)[1]) # None
    /\ HeadFrameBefore(node_id, frame_type).metadata.basis_hash = None
    /\ GetBasisForFrame(basis_index, GetHead(heads, node_id, frame_type)[1]) # None
    /\ GetBasisForFrame(basis_index, GetHead(heads, node_id, frame_type)[1])[1]
           # ComputeBasisHash(HeadFrameBefore(node_id, frame_type).basis)

\* C36: regenerate_node on a node with a stale authored head leaves that head
\* in place, stores and counts nothing for it, and names its frame type as
\* stale in the report
C36_StaleAuthoredReported ==
    [][\A n \in Nodes, t \in FrameTypes, a \in AgentIds, order \in TypeOrders :
           (Regenerate(n, FALSE, a, 0, order) /\ StaleAuthored(n, t)) =>
               /\ GetHead(heads', n, t) = GetHead(heads, n, t)
               /\ frames' = frames
               /\ report'.regenerated_count = 0
               /\ t \in ReportedStaleTypes(report')]_vars

(***************************************************************************)
(* Claims about what the planner of context generate puts into a plan.     *)
(***************************************************************************)
\* the nodes of the subtree below and including node_id
RECURSIVE SubtreeNodes(_, _)
SubtreeNodes(children, node_id) ==
    {node_id} \cup UNION {SubtreeNodes(children, children[node_id][i]) :
                             i \in 1..Len(children[node_id])}

\* the nodes the command looks at: the subtree when recursive, else the target
PlanScope(tree, args) ==
    IF args.recursive THEN SubtreeNodes(tree.children, args.target) ELSE {args.target}

\* the node ids of the plan's items
PlannedNodes(p) == UNION {{p.levels[i][j] : j \in 1..Len(p.levels[i])} : i \in 1..Len(p.levels)}

\* the step is a context generate command that built a plan
PlanBuilt == commands' = commands + 1 /\ plan'.ok

\* C37: a node of the command's scope is in the plan exactly if force is set
\* or it has no head; no level of the plan is empty; total_nodes counts the
\* items and total_levels the levels; and a plan without items starts no
\* queue and submits nothing
C37_PlanHoldsExactlyTheMissing ==
    /\ [][PlanBuilt =>
            /\ PlannedNodes(plan') =
                   {n \in PlanScope(planTree, planArgs') :
                        planArgs'.force \/ n \notin planHeads}
            /\ \A i \in 1..Len(plan'.levels) : plan'.levels[i] # <<>>
            /\ plan'.total_nodes = Cardinality(PlannedNodes(plan'))
            /\ plan'.total_levels = Len(plan'.levels)
            /\ plan'.total_nodes = 0 =>
                   execPc' = "returned" /\ cmdRet' = "Ok" /\ inflight' = {}]_vars
    /\ [](plan.total_nodes = 0 => execPc # "executing" /\ inflight = {})

\* a recursive command without force planned part of the subtree: some nodes
\* were skipped for their heads and a whole level fell away
C37_Witness ==
    /\ commands > 0
    /\ plan.ok
    /\ planArgs.recursive
    /\ ~planArgs.force
    /\ plan.total_nodes > 0
    /\ plan.total_levels < Len(CollectSubtreeLevels(planTree.children, planArgs.target))

(***************************************************************************)
(* FrameGenerationQueue::start and ::stop called by tasks that share the   *)
(* queue behind an Arc.  start is two critical sections (the running flag, *)
(* then the workers vector), stop is the flag, the take of the vector and  *)
(* the awaits of the handles it took.  A worker task is reduced to the     *)
(* test of its while loop and a loop body that ends.                       *)
(***************************************************************************)
\* the worker tasks that have been spawned and have not returned
AliveTasks == {t \in Tasks : taskPc[t] \in {"top", "busy"}}

\* start, first critical section: `if *running { return Ok(()) }; *running = true`
StartFlag(c) ==
    /\ callPc[c] = "idle"
    /\ IF runFlag
       THEN UNCHANGED <<runFlag, callPc>>
       ELSE /\ spawned + WorkersPerAgent * (1 + Cardinality({d \in Callers : callPc[d] = "spawn"}))
               <= MaxTasks
            /\ runFlag' = TRUE
            /\ callPc' = [callPc EXCEPT ![c] = "spawn"]
    /\ UNCHANGED <<taskPc, workerHandles, taken, spawned>>

\* start, second critical section: `for i in 0..worker_count { workers.push(tokio::spawn(..)) }`
StartSpawn(c) ==
    /\ callPc[c] = "spawn"
    /\ taskPc' = [t \in Tasks |->
                     IF t \in (spawned + 1)..(spawned + WorkersPerAgent) THEN "top"
                     ELSE taskPc[t]]
    /\ workerHandles' = workerHandles \cup (spawned + 1)..(spawned + WorkersPerAgent)
    /\ spawned' = spawned + WorkersPerAgent
    /\ callPc' = [callPc EXCEPT ![c] = "idle"]
    /\ UNCHANGED <<runFlag, taken>>

\* stop, first critical section: `if !*running { return Ok(()) }; *running = false`
StopFlag(c) ==
    /\ callPc[c] = "idle"
    /\ IF ~runFlag
       THEN UNCHANGED <<runFlag, callPc>>
       ELSE /\ runFlag' = FALSE
            /\ callPc' = [callPc EXCEPT ![c] = "take"]
    /\ UNCHANGED <<taskPc, workerHandles, taken, spawned>>

\* `let workers = std::mem::take(&mut *self.workers.write())`
StopTake(c) ==
    /\ callPc[c] = "take"
    /\ taken' = [taken EXCEPT ![c] = workerHandles]
    /\ workerHandles' = {}
    /\ callPc' = [callPc EXCEPT ![c] = "join"]
    /\ UNCHANGED <<runFlag, taskPc, spawned>>

\* `for handle in workers { let _ = handle.await; }` is over; stop returns
StopJoined(c) ==
    /\ callPc[c] = "join"
    /\ \A t \in taken[c] : taskPc[t] = "done"
    /\ taken' = [taken EXCEPT ![c] = {}]
    /\ callPc' = [callPc EXCEPT ![c] = "idle"]
    /\ UNCHANGED <<runFlag, taskPc, workerHandles, spawned>>

\* `while *running.read()`: into the loop body, or the task returns
TaskTop(t) ==
    /\ taskPc[t] = "top"
    /\ taskPc' = [taskPc EXCEPT ![t] = IF runFlag THEN "busy" ELSE "done"]
    /\ UNCHANGED <<runFlag, workerHandles, callPc, taken, spawned>>

\* one pass through the loop body (pop, wait or process) ends
TaskBody(t) ==
    /\ taskPc[t] = "busy"
    /\ taskPc' = [taskPc EXCEPT ![t] = "top"]
    /\ UNCHANGED <<runFlag, workerHandles, callPc, taken, spawned>>

LifeNext ==
    \/ \E c \in Callers : StartFlag(c) /\ UNCHANGED notLife
    \/ \E c \in Callers : StartSpawn(c) /\ UNCHANGED notLife
    \/ \E c \in Callers : StopFlag(c) /\ UNCHANGED notLife
    \/ \E c \in Callers : StopTake(c) /\ UNCHANGED notLife
    \/ \E c \in Callers : StopJoined(c) /\ UNCHANGED notLife
    \/ \E t \in Tasks : TaskTop(t) /\ UNCHANGED notLife
    \/ \E t \in Tasks : TaskBody(t) /\ UNCHANGED notLife

SpecLife == Init /\ [][LifeNext]_vars

\* C38: at any moment at most workers_per_agent worker tasks of the queue
\* are alive, whatever the interleaving of start and stop calls
C38_AtMostWorkersPerAgentAlive == Cardinality(AliveTasks) <= WorkersPerAgent

(***************************************************************************)
(* The watch daemon: EventBatcher and the receive loop of                  *)
(* WatchDaemon::start.  A path or a pattern is a sequence of pieces ("/",  *)
(* "*", a name), and the string functions of matches_pattern work on the   *)
(* pieces.                                                                 *)
(***************************************************************************)
\* debounce_ms, batch_window_ms and max_batch_size, in clock ticks and events
DebounceWindow == 2
BatchWindow == 1
MaxBatchSize == 2
\* the latest instant and the most events the watcher delivers
MaxWatchClock == 3
MaxWatchEvents == 3

\* ignore_patterns: "**/.git/**" and "**/.DS_Store"
IgnorePatterns == {<<"*", "*", "/", ".git", "/", "*", "*">>, <<"*", "*", "/", ".DS_Store">>}

WatchEventKinds == {"Created", "Removed"}
WatchEvents == [kind : WatchEventKinds, path : WatchPaths]

\* str::replace('\\', "/")
ReplaceBackslash(s) == [i \in 1..Len(s) |-> IF s[i] = "\\" THEN "/" ELSE s[i]]

\* str::contains
ContainsStr(s, sub) == \E i \in 0..(Len(s) - Len(sub)) : SubSeq(s, i + 1, i + Len(sub)) = sub

\* str::split(delimiter).collect()
RECURSIVE SplitStr(_, _)
SplitStr(s, d) ==
    IF ~ContainsStr(s, d) THEN <<s>>
    ELSE LET i == CHOOSE k \in 0..(Len(s) - Len(d)) :
                      /\ SubSeq(s, k + 1, k + Len(d)) = d
                      /\ \A j \in 0..(k - 1) : SubSeq(s, j + 1, j + Len(d)) # d
         IN  <<SubSeq(s, 1, i)>> \o SplitStr(SubSeq(s, i + Len(d) + 1, Len(s)), d)

\* EventBatcher::matches_pattern
MatchesPattern(path, pattern) ==
    LET path_normalized == ReplaceBackslash(path)
        pattern_normalized == ReplaceBackslash(pattern)
        by_stars == SplitStr(pattern_normalized, <<"*", "*">>)
        by_star == SplitStr(pattern_normalized, <<"*">>)
    IN  IF ContainsStr(pattern_normalized, <<"*", "*">>) /\ Len(by_stars) = 2
        THEN IF by_stars[1] = <<>> THEN ContainsStr(path_normalized, by_stars[2])
             ELSE IF by_stars[2] = <<>> THEN IsPrefix(by_stars[1], path_normalized)
             ELSE /\ IsPrefix(by_stars[1], path_normalized)
                  /\ ContainsStr(path_normalized, by_stars[2])
        ELSE IF ContainsStr(pattern_normalized, <<"*">>) /\ Len(by_star) = 2
        THEN /\ IsPrefix(by_star[1], path_normalized)
             /\ ContainsStr(path_normalized, by_star[2])
        ELSE \/ path_normalized = pattern_normalized
             \/ ContainsStr(path_normalized, pattern_normalized)

\* EventBatcher::should_ignore
ShouldIgnore(path) == \E pattern \in IgnorePatterns : MatchesPattern(path, pattern)

\* HashMap::insert(path, event)
InsertPending(pending, event) == {e \in pending : e.path # event.path} \cup {event}

\* EventBatcher::add_event: the batcher's two maps afterwards and the
\* returned flag
AddEvent(pending, last, event, now) ==
    IF ShouldIgnore(event.path)
    THEN [pending |-> pending, last |-> last, ret |-> FALSE]
    ELSE IF last[event.path] # -1 /\ now - last[event.path] < DebounceWindow
    THEN [pending |-> InsertPending(pending, event), last |-> last, ret |-> FALSE]
    ELSE [pending |-> InsertPending(pending, event),
          last |-> [last EXCEPT ![event.path] = now],
          ret |-> Cardinality(InsertPending(pending, event)) >= MaxBatchSize]

\* EventBatcher::take_batch: the values of the map in any iteration order
TakeBatch(pending) ==
    {q \in [1..Cardinality(pending) -> pending] :
        \A i, j \in 1..Cardinality(pending) : i # j => q[i] # q[j]}

SeqRange(q) == {q[i] : i \in 1..Len(q)}

\* one iteration of the loop of WatchDaemon::start in which recv_timeout
\* returns an event: add_event, take_batch or push, and the flush test at
\* the end of the iteration
WatchRecv(event) ==
    /\ received < MaxWatchEvents
    /\ received' = received + 1
    /\ LET r == AddEvent(batcherPending, lastEventTime, event, watchClock)
       IN  \E batch \in (IF r.ret THEN TakeBatch(r.pending) ELSE {<<event>>}) :
               LET pending_events == daemonPending \o batch
                   flush == watchClock - lastBatchTime >= BatchWindow
               IN  /\ batcherPending' = IF r.ret THEN {} ELSE r.pending
                   /\ lastEventTime' = IF r.ret THEN [p \in WatchPaths |-> -1] ELSE r.last
                   /\ daemonPending' = IF flush THEN <<>> ELSE pending_events
                   /\ processedEvents' =
                          IF flush THEN processedEvents \cup SeqRange(pending_events)
                          ELSE processedEvents
                   /\ lastBatchTime' = IF flush THEN watchClock ELSE lastBatchTime
    /\ UNCHANGED watchClock

\* an iteration in which recv_timeout times out with events pending:
\* process_events(pending_events.drain(..))
WatchTimeout ==
    /\ daemonPending # <<>>
    /\ watchClock - lastBatchTime >= BatchWindow
    /\ processedEvents' = processedEvents \cup SeqRange(daemonPending)
    /\ daemonPending' = <<>>
    /\ lastBatchTime' = watchClock
    /\ UNCHANGED <<batcherPending, lastEventTime, watchClock, received>>

\* time passes
WatchTick ==
    /\ watchClock < MaxWatchClock
    /\ watchClock' = watchClock + 1
    /\ UNCHANGED <<batcherPending, lastEventTime, daemonPending, processedEvents,
                   lastBatchTime, received>>

WatchNext ==
    \/ \E event \in WatchEvents : WatchRecv(event) /\ UNCHANGED notWatch
    \/ WatchTimeout /\ UNCHANGED notWatch
    \/ WatchTick /\ UNCHANGED notWatch

SpecWatch == Init /\ [][WatchNext]_vars

\* C39: an event whose path matches an ignore pattern is in none of the
\* pending collections and is never handed to process_events
C39_IgnoredEventsDiscarded ==
    \A e \in batcherPending \cup SeqRange(daemonPending) \cup processedEvents :
        ~ShouldIgnore(e.path)

(***************************************************************************)
(* build_workspace_status over a node store and a head index that change   *)
(* between calls: scans put records, deletes tombstone them, agents write  *)
(* heads.                                                                  *)
(***************************************************************************)
\* the agent registry: two Writers and a Reader
StatusRegistry == [a \in {"agent-a", "agent-b", "agent-r"} |->
                      IF a = "agent-r" THEN Reader ELSE Writer]

\* agent_registry.list_by_role(Some(AgentRole::Writer))
StatusWriters == {a \in DOMAIN StatusRegistry : StatusRegistry[a] = Writer}

\* format!("context-{}", agent_id)
ContextFrameType(agent_id) == <<"context-", agent_id>>

\* node_store.list_active()
ListActive(records) == {n \in DOMAIN records : records[n] = "active"}

\* HeadIndex::count_nodes_for_frame_type: the keys of the map with this type
CountNodesForFrameType(head_keys, frame_type) ==
    Cardinality({k \in head_keys : k[2] = frame_type})

\* one ContextCoverageEntry
CoverageEntry(agent_id, total_nodes, nodes_with_frame) ==
    [agent_id |-> agent_id,
     nodes_with_frame |-> nodes_with_frame,
     nodes_without_frame |-> SaturatingSub(total_nodes, nodes_with_frame),
     coverage_pct |-> IF total_nodes > 0 THEN (nodes_with_frame * 100) \div total_nodes
                      ELSE 0]

\* build_workspace_status: scanned = false while the root has no record
BuildWorkspaceStatus ==
    /\ lastStatus' =
           IF nodeRecords[1] = "absent" THEN NoStatus
           ELSE LET total_nodes == Cardinality(ListActive(nodeRecords))
                IN  [scanned |-> TRUE,
                     total_nodes |-> total_nodes,
                     context_coverage |->
                         {CoverageEntry(a, total_nodes,
                                        CountNodesForFrameType(statusHeads,
                                                               ContextFrameType(a))) :
                              a \in StatusWriters}]
    /\ UNCHANGED <<nodeRecords, statusHeads>>

\* a scan puts the record of a node
ScanPut(node_id) ==
    /\ nodeRecords' = [nodeRecords EXCEPT ![node_id] = "active"]
    /\ UNCHANGED <<statusHeads, lastStatus>>

\* delete: the record gets a tombstone, the heads of the node stay
TombstoneNode(node_id) ==
    /\ nodeRecords[node_id] = "active"
    /\ nodeRecords' = [nodeRecords EXCEPT ![node_id] = "tombstoned"]
    /\ UNCHANGED <<statusHeads, lastStatus>>

\* an agent's frame becomes the head of an active node
StatusUpdateHead(node_id, agent_id) ==
    /\ nodeRecords[node_id] = "active"
    /\ statusHeads' = statusHeads \cup {<<node_id, ContextFrameType(agent_id)>>}
    /\ UNCHANGED <<nodeRecords, lastStatus>>

StatusNext ==
    \/ BuildWorkspaceStatus /\ UNCHANGED notStatus
    \/ \E n \in StatusNodes : ScanPut(n) /\ UNCHANGED notStatus
    \/ \E n \in StatusNodes : TombstoneNode(n) /\ UNCHANGED notStatus
    \/ \E n \in StatusNodes, a \in StatusWriters :
           StatusUpdateHead(n, a) /\ UNCHANGED notStatus

SpecStatus == Init /\ [][StatusNext]_vars

\* C40: in every status built, each Writer's nodes_with_frame and
\* nodes_without_frame add up to total_nodes and coverage_pct is in 0..100
C40_CoverageAddsUp ==
    \A e \in lastStatus.context_coverage :
        /\ e.nodes_with_frame + e.nodes_without_frame = lastStatus.total_nodes
        /\ e.coverage_pct \in 0..100

====
